---- MODULE Spec2Model ----
(***************************************************************************)
(* A model of the value codec of @mladovic/storage: the classifier         *)
(* (src/validation.ts), the Serializer (core/serializer.ts) and the error  *)
(* taxonomy (errors.ts).  Texts are real character strings: JSON.stringify *)
(* builds them and JSON.parse reads them back character by character.      *)
(***************************************************************************)
EXTENDS Integers, Sequences, FiniteSets, TLC

VARIABLES
    pc,        \* position of the call in flight: idle, awaitReader, awaitEnvelope, done, decoded
    op,        \* "none", "serialize" or "deserialize"
    heap,      \* the caller's arrays and plain records, by object identity
    arg,       \* the argument of the call in flight
    reader,    \* the FileReader of blobToBase64
    envelope,  \* the envelope createEnvelope resolved to, awaited by serialize
    outcome,   \* how the call ended
    decoded,   \* how deserialize of the text that serialize resolved to ended
    snapshot,  \* the content the caller's objects had when serialize was called
    calls,     \* the calls in flight at the same time, each with its own position
    readers    \* the FileReader objects those calls have created

vars == <<pc, op, heap, arg, reader, envelope, outcome, decoded, snapshot, calls, readers>>

-----------------------------------------------------------------------------
(* Bounds of the model *)

\* const x = e; F(x): e is evaluated once
With(e, F(_)) == F(e)

\* longest byte content of an ArrayBuffer, Blob, File or view buffer
MaxBytes == 3

\* deepest nesting of the caller's arrays and plain records
MaxDepth == 2

\* the calls that are in flight at the same time
MaxCalls == 2

-----------------------------------------------------------------------------
(* Characters and strings *)

Ch(s, i) == IF i >= 1 /\ i <= Len(s) THEN SubSeq(s, i, i) ELSE ""

Rest(s, i) == IF i > Len(s) THEN "" ELSE SubSeq(s, i, Len(s))

\* the characters i..j of s that exist
Slice(s, i, j) ==
    IF i > Len(s) \/ j < i THEN ""
    ELSE SubSeq(s, i, IF j > Len(s) THEN Len(s) ELSE j)

Digits == "0123456789"

LowerCaseLetters == "abcdefghijklmnopqrstuvwxyz"

UpperCaseLetters == "ABCDEFGHIJKLMNOPQRSTUVWXYZ"

\* position of the one-character string c in s, 0 when absent
IndexOf(s, c) ==
    IF \E i \in 1..Len(s) : SubSeq(s, i, i) = c
    THEN CHOOSE i \in 1..Len(s) :
            /\ SubSeq(s, i, i) = c
            /\ \A j \in 1..(i - 1) : SubSeq(s, j, j) # c
    ELSE 0

IsDigit(c) == c # "" /\ IndexOf(Digits, c) > 0

DigitValue(c) == IndexOf(Digits, c) - 1

RECURSIVE NatToString(_)
NatToString(n) ==
    IF n < 10 THEN Ch(Digits, n + 1)
    ELSE NatToString(n \div 10) \o Ch(Digits, (n % 10) + 1)

IntToString(n) == IF n < 0 THEN "-" \o NatToString(0 - n) ELSE NatToString(n)

RECURSIVE Pow10(_)
Pow10(k) == IF k <= 0 THEN 1 ELSE 10 * Pow10(k - 1)

\* String.prototype.padStart(width, "0") on the decimal digits of n >= 0
RECURSIVE PadStart(_, _)
PadStart(s, width) == IF Len(s) >= width THEN s ELSE PadStart("0" \o s, width)

-----------------------------------------------------------------------------
(* The platform's base64: btoa and atob *)

Base64Alphabet == UpperCaseLetters \o LowerCaseLetters \o Digits \o "+/"

Base64Char(i) == Ch(Base64Alphabet, i + 1)

\* btoa: a binary string (one character code per byte) to base64 text;
\* a code above 255 is an InvalidCharacterError
RECURSIVE btoaChars(_)
btoaChars(bin) ==
    IF Len(bin) = 0 THEN ""
    ELSE IF Len(bin) = 1 THEN
        Base64Char(bin[1] \div 4) \o Base64Char((bin[1] % 4) * 16) \o "=="
    ELSE IF Len(bin) = 2 THEN
        Base64Char(bin[1] \div 4)
        \o Base64Char((bin[1] % 4) * 16 + (bin[2] \div 16))
        \o Base64Char((bin[2] % 16) * 4) \o "="
    ELSE
        Base64Char(bin[1] \div 4)
        \o Base64Char((bin[1] % 4) * 16 + (bin[2] \div 16))
        \o Base64Char((bin[2] % 16) * 4 + (bin[3] \div 64))
        \o Base64Char(bin[3] % 64)
        \o btoaChars(SubSeq(bin, 4, Len(bin)))

btoa(bin) ==
    IF \E i \in 1..Len(bin) : bin[i] > 255
    THEN [ok |-> FALSE, s |-> ""]
    ELSE [ok |-> TRUE, s |-> btoaChars(bin)]

AsciiWhitespace == {" ", "\t", "\n", "\f", "\r"}

RECURSIVE StripWhitespace(_)
StripWhitespace(s) ==
    IF s = "" THEN ""
    ELSE IF Ch(s, 1) \in AsciiWhitespace THEN StripWhitespace(Rest(s, 2))
    ELSE Ch(s, 1) \o StripWhitespace(Rest(s, 2))

\* forgiving-base64: when the length is a multiple of 4, one or two
\* trailing "=" are dropped
StripPadding(s) ==
    IF Len(s) > 0 /\ Len(s) % 4 = 0 THEN
        IF Ch(s, Len(s)) = "=" THEN
            IF Ch(s, Len(s) - 1) = "=" THEN SubSeq(s, 1, Len(s) - 2)
            ELSE SubSeq(s, 1, Len(s) - 1)
        ELSE s
    ELSE s

Sextet(s, i) == IndexOf(Base64Alphabet, Ch(s, i)) - 1

RECURSIVE atobBytes(_)
atobBytes(s) ==
    IF Len(s) < 2 THEN <<>>
    ELSE IF Len(s) = 2 THEN
        <<Sextet(s, 1) * 4 + (Sextet(s, 2) \div 16)>>
    ELSE IF Len(s) = 3 THEN
        <<Sextet(s, 1) * 4 + (Sextet(s, 2) \div 16),
          (Sextet(s, 2) % 16) * 16 + (Sextet(s, 3) \div 4)>>
    ELSE
        <<Sextet(s, 1) * 4 + (Sextet(s, 2) \div 16),
          (Sextet(s, 2) % 16) * 16 + (Sextet(s, 3) \div 4),
          (Sextet(s, 3) % 4) * 64 + Sextet(s, 4)>>
        \o atobBytes(Rest(s, 5))

\* atob: base64 text to a binary string; ok = FALSE is an
\* InvalidCharacterError (a DOMException)
atob(str) ==
    LET s == StripPadding(StripWhitespace(str)) IN
    IF Len(s) % 4 = 1 \/ \E i \in 1..Len(s) : IndexOf(Base64Alphabet, Ch(s, i)) = 0
    THEN [ok |-> FALSE, bin |-> <<>>]
    ELSE [ok |-> TRUE, bin |-> atobBytes(s)]

-----------------------------------------------------------------------------
(* JavaScript values.  A value is a record tagged by t; an array or plain  *)
(* record the caller owns is a reference [t |-> "ref", id |-> i] into the  *)
(* heap, so that it has an identity and may contain itself; a freshly      *)
(* parsed array or record is written inline.                               *)

Null == [t |-> "null"]

Undefined == [t |-> "undefined"]

Bool(b) == [t |-> "boolean", b |-> b]

Str(s) == [t |-> "string", s |-> s]

\* a finite Number is (-1)^neg * m * 10^e with m not a multiple of 10
RECURSIVE NormalizeNumber(_, _, _)
NormalizeNumber(neg, m, e) ==
    IF m = 0 THEN [t |-> "number", cls |-> "finite", neg |-> neg, m |-> 0, e |-> 0]
    ELSE IF m % 10 = 0 THEN NormalizeNumber(neg, m \div 10, e + 1)
    ELSE [t |-> "number", cls |-> "finite", neg |-> neg, m |-> m, e |-> e]

Num(n) == IF n < 0 THEN NormalizeNumber(TRUE, 0 - n, 0) ELSE NormalizeNumber(FALSE, n, 0)

Decimal(neg, m, e) == NormalizeNumber(neg, m, e)

NegativeZero == [t |-> "number", cls |-> "finite", neg |-> TRUE, m |-> 0, e |-> 0]

NaN == [t |-> "number", cls |-> "NaN", neg |-> FALSE, m |-> 0, e |-> 0]

PositiveInfinity == [t |-> "number", cls |-> "Infinity", neg |-> FALSE, m |-> 0, e |-> 0]

NegativeInfinity == [t |-> "number", cls |-> "Infinity", neg |-> TRUE, m |-> 0, e |-> 0]

IsInteger(v) == v.t = "number" /\ v.cls = "finite" /\ v.e >= 0

\* the mathematical value of an integer Number
IntegerValue(v) == (IF v.neg THEN -1 ELSE 1) * v.m * Pow10(v.e)

Ref(i) == [t |-> "ref", id |-> i]

ArrayOf(items) == [t |-> "Array", items |-> items]

\* proto is "Object.prototype" or "null" for a plain record
ObjectOf(keys, vals) ==
    [t |-> "Object", keys |-> keys, vals |-> vals, proto |-> "Object.prototype"]

Deref(h, v) == IF v.t = "ref" THEN h[v.id] ELSE v

\* v === w on primitives: NaN differs from itself, +0 equals -0
StrictEquals(v, w) ==
    /\ v.t = w.t
    /\ v.t \in {"null", "undefined", "boolean", "string", "number"}
    /\ IF v.t = "number"
       THEN /\ v.cls # "NaN" /\ w.cls # "NaN"
            /\ v.cls = w.cls
            /\ v.m = w.m /\ v.e = w.e
            /\ (v.neg = w.neg \/ (v.cls = "finite" /\ v.m = 0))
       ELSE v = w

\* Object.is(v, w) on primitives: NaN is NaN, +0 is not -0
SameValue(v, w) ==
    /\ v.t = w.t
    /\ v.t \in {"null", "undefined", "boolean", "string", "number"}
    /\ v = w

RECURSIVE Zeros(_)
Zeros(k) == IF k <= 0 THEN "" ELSE "0" \o Zeros(k - 1)

\* Number::toString for a finite Number, radix 10
NumberToString(v) ==
    LET digits == NatToString(v.m)
        k == Len(digits)
        n == k + v.e      \* the decimal point stands after the n-th digit
        sign == IF v.neg /\ v.m # 0 THEN "-" ELSE ""
    IN  IF v.cls = "NaN" THEN "NaN"
        ELSE IF v.cls = "Infinity" THEN (IF v.neg THEN "-Infinity" ELSE "Infinity")
        ELSE IF v.m = 0 THEN "0"
        ELSE IF k <= n /\ n <= 21 THEN sign \o digits \o Zeros(n - k)
        ELSE IF 0 < n /\ n <= 21 THEN
            sign \o SubSeq(digits, 1, n) \o "." \o SubSeq(digits, n + 1, k)
        ELSE IF -6 < n /\ n <= 0 THEN sign \o "0." \o Zeros(0 - n) \o digits
        ELSE sign \o Ch(digits, 1)
                  \o (IF k > 1 THEN "." \o SubSeq(digits, 2, k) ELSE "")
                  \o "e" \o (IF n - 1 < 0 THEN "-" ELSE "+")
                  \o NatToString(IF n - 1 < 0 THEN 1 - n ELSE n - 1)

\* ToString(v) of a primitive
PrimitiveToString(v) ==
    CASE v.t = "null" -> "null"
      [] v.t = "undefined" -> "undefined"
      [] v.t = "boolean" -> (IF v.b THEN "true" ELSE "false")
      [] v.t = "string" -> v.s
      [] v.t = "number" -> NumberToString(v)

-----------------------------------------------------------------------------
(* Date: a time value is day * 86400000 + msOfDay, kept as the pair *)

MsPerDay == 86400000

DateOf(day, msOfDay) == [t |-> "Date", valid |-> TRUE, day |-> day, msOfDay |-> msOfDay]

InvalidDate == [t |-> "Date", valid |-> FALSE, day |-> 0, msOfDay |-> 0]

\* the largest day of the time range, 8.64e15 ms on either side of the epoch
MaxDay == 100000000

\* year, month and day of month of a day number (days since 1970-01-01)
CivilFromDays(day) ==
    LET z == day + 719468
        era == z \div 146097
        doe == z - era * 146097
        yoe == (doe - (doe \div 1460) + (doe \div 36524) - (doe \div 146096)) \div 365
        doy == doe - (365 * yoe + (yoe \div 4) - (yoe \div 100))
        mp == (5 * doy + 2) \div 153
        d == doy - ((153 * mp + 2) \div 5) + 1
        mo == IF mp < 10 THEN mp + 3 ELSE mp - 9
        y == yoe + era * 400 + (IF mo <= 2 THEN 1 ELSE 0)
    IN  [year |-> y, month |-> mo, date |-> d]

DaysFromCivil(year, month, date) ==
    LET y == IF month <= 2 THEN year - 1 ELSE year
        era == y \div 400
        yoe == y - era * 400
        doy == ((153 * (IF month > 2 THEN month - 3 ELSE month + 9) + 2) \div 5) + date - 1
        doe == yoe * 365 + (yoe \div 4) - (yoe \div 100) + doy
    IN  era * 146097 + doe - 719468

IsLeapYear(y) == (y % 4 = 0 /\ y % 100 # 0) \/ y % 400 = 0

DaysInMonth(y, mo) ==
    IF mo = 2 THEN (IF IsLeapYear(y) THEN 29 ELSE 28)
    ELSE IF mo \in {4, 6, 9, 11} THEN 30 ELSE 31

Pad(n, width) == PadStart(NatToString(n), width)

\* Date.prototype.toISOString; ok = FALSE is the RangeError of an invalid Date
toISOString(d) ==
    IF ~d.valid THEN [ok |-> FALSE, s |-> ""]
    ELSE
        LET c == CivilFromDays(d.day)
            year == IF c.year >= 0 /\ c.year <= 9999 THEN Pad(c.year, 4)
                    ELSE IF c.year < 0 THEN "-" \o Pad(0 - c.year, 6)
                    ELSE "+" \o Pad(c.year, 6)
            h == d.msOfDay \div 3600000
            mi == (d.msOfDay % 3600000) \div 60000
            sec == (d.msOfDay % 60000) \div 1000
            ms == d.msOfDay % 1000
        IN  [ok |-> TRUE,
             s |-> year \o "-" \o Pad(c.month, 2) \o "-" \o Pad(c.date, 2)
                   \o "T" \o Pad(h, 2) \o ":" \o Pad(mi, 2) \o ":" \o Pad(sec, 2)
                   \o "." \o Pad(ms, 3) \o "Z"]

AllDigits(s) == s # "" /\ \A i \in 1..Len(s) : IsDigit(Ch(s, i))

RECURSIVE StringToNat(_)
StringToNat(s) ==
    IF s = "" THEN 0
    ELSE StringToNat(SubSeq(s, 1, Len(s) - 1)) * 10 + DigitValue(Ch(s, Len(s)))

\* Date.parse of the date-time string format YYYY-MM-DDTHH:mm:ss.sssZ with
\* its expanded years; any other text is taken as unparseable
DateParse(s) ==
    LET expanded == Ch(s, 1) \in {"+", "-"}
        yl == IF expanded THEN 7 ELSE 4     \* length of the year part
        ys == IF expanded THEN SubSeq(s, 2, 7) ELSE SubSeq(s, 1, 4)
        r == Rest(s, yl + 1)                \* "-MM-DDTHH:mm:ss.sssZ"
        shape == /\ Len(s) = yl + 20
                 /\ AllDigits(ys)
                 /\ Ch(r, 1) = "-" /\ AllDigits(SubSeq(r, 2, 3))
                 /\ Ch(r, 4) = "-" /\ AllDigits(SubSeq(r, 5, 6))
                 /\ Ch(r, 7) = "T" /\ AllDigits(SubSeq(r, 8, 9))
                 /\ Ch(r, 10) = ":" /\ AllDigits(SubSeq(r, 11, 12))
                 /\ Ch(r, 13) = ":" /\ AllDigits(SubSeq(r, 14, 15))
                 /\ Ch(r, 16) = "." /\ AllDigits(SubSeq(r, 17, 19))
                 /\ Ch(r, 20) = "Z"
        y == (IF Ch(s, 1) = "-" THEN -1 ELSE 1) * StringToNat(ys)
        mo == StringToNat(SubSeq(r, 2, 3))
        d == StringToNat(SubSeq(r, 5, 6))
        h == StringToNat(SubSeq(r, 8, 9))
        mi == StringToNat(SubSeq(r, 11, 12))
        sec == StringToNat(SubSeq(r, 14, 15))
        ms == StringToNat(SubSeq(r, 17, 19))
    IN  IF /\ shape
           /\ ~(Ch(s, 1) = "-" /\ y = 0)
           /\ mo >= 1 /\ mo <= 12 /\ d >= 1 /\ d <= DaysInMonth(y, mo)
           /\ h <= 23 /\ mi <= 59 /\ sec <= 59
           /\ DaysFromCivil(y, mo, d) >= 0 - MaxDay
           /\ DaysFromCivil(y, mo, d) <= MaxDay
           /\ (DaysFromCivil(y, mo, d) = MaxDay => h + mi + sec + ms = 0)
        THEN DateOf(DaysFromCivil(y, mo, d), h * 3600000 + mi * 60000 + sec * 1000 + ms)
        ELSE InvalidDate

-----------------------------------------------------------------------------
(* RegExp *)

RegExpOf(source, flags) == [t |-> "RegExp", source |-> source, flags |-> flags]

\* the flag characters in the order the flags getter reports them
RegExpFlagChars == "dgimsuvy"

\* the flags getter: the flags that are set, in the order of RegExpFlagChars
RECURSIVE CanonicalFlags(_, _)
CanonicalFlags(f, i) ==
    IF i > Len(RegExpFlagChars) THEN ""
    ELSE (IF IndexOf(f, Ch(RegExpFlagChars, i)) > 0 THEN Ch(RegExpFlagChars, i) ELSE "")
         \o CanonicalFlags(f, i + 1)

ValidFlags(f) ==
    /\ \A i \in 1..Len(f) : IndexOf(RegExpFlagChars, Ch(f, i)) > 0
    /\ \A i, j \in 1..Len(f) : i # j => Ch(f, i) # Ch(f, j)
    /\ ~(IndexOf(f, "u") > 0 /\ IndexOf(f, "v") > 0)

\* the pattern grammar as far as grouping, classes, escapes and dangling
\* quantifiers go: depth is the number of open groups, inClass whether a
\* character class is open, atom whether a quantifier may follow
RECURSIVE ValidPatternFrom(_, _, _, _, _)
ValidPatternFrom(p, i, depth, inClass, atom) ==
    LET c == Ch(p, i) IN
    IF i > Len(p) THEN depth = 0 /\ ~inClass
    ELSE IF c = "\\" THEN i < Len(p) /\ ValidPatternFrom(p, i + 2, depth, inClass, TRUE)
    ELSE IF inClass THEN ValidPatternFrom(p, i + 1, depth, c # "]", TRUE)
    ELSE IF c = "[" THEN ValidPatternFrom(p, i + 1, depth, TRUE, TRUE)
    ELSE IF c = "(" THEN
        IF Ch(p, i + 1) = "?" /\ Ch(p, i + 2) \in {":", "=", "!"}
        THEN ValidPatternFrom(p, i + 3, depth + 1, FALSE, FALSE)
        ELSE ValidPatternFrom(p, i + 1, depth + 1, FALSE, FALSE)
    ELSE IF c = ")" THEN depth > 0 /\ ValidPatternFrom(p, i + 1, depth - 1, FALSE, TRUE)
    ELSE IF c = "|" THEN ValidPatternFrom(p, i + 1, depth, FALSE, FALSE)
    ELSE IF c \in {"*", "+", "?"} THEN atom /\ ValidPatternFrom(p, i + 1, depth, FALSE, TRUE)
    ELSE ValidPatternFrom(p, i + 1, depth, FALSE, TRUE)

ValidPattern(p) == ValidPatternFrom(p, 1, 0, FALSE, FALSE)

\* EscapeRegExpPattern: the source getter never shows an empty pattern or an
\* unescaped "/" outside a class
RECURSIVE EscapeFrom(_, _, _)
EscapeFrom(p, i, inClass) ==
    LET c == Ch(p, i) IN
    IF i > Len(p) THEN ""
    ELSE IF c = "\\" THEN c \o Ch(p, i + 1) \o EscapeFrom(p, i + 2, inClass)
    ELSE IF c = "/" /\ ~inClass THEN "\\/" \o EscapeFrom(p, i + 1, inClass)
    ELSE IF c = "\n" THEN "\\n" \o EscapeFrom(p, i + 1, inClass)
    ELSE c \o EscapeFrom(p, i + 1, IF inClass THEN c # "]" ELSE c = "[")

EscapeRegExpPattern(p) == IF p = "" THEN "(?:)" ELSE EscapeFrom(p, 1, FALSE)

\* new RegExp(pattern, flags) on strings; ok = FALSE is its SyntaxError
RegExpCreate(pattern, flags) ==
    IF ValidFlags(flags) /\ ValidPattern(pattern)
    THEN [ok |-> TRUE,
          val |-> RegExpOf(EscapeRegExpPattern(pattern), CanonicalFlags(flags, 1))]
    ELSE [ok |-> FALSE, val |-> RegExpOf("", "")]

-----------------------------------------------------------------------------
(* Blob, File, ArrayBuffer and the views over a buffer *)

\* the characters U+0020..U+007E that a string of the model can hold
AsciiPrintable ==
    " !\"#$%&'()*+,-./" \o Digits \o ":;<=>?@" \o UpperCaseLetters
    \o "[\\]^_" \o LowerCaseLetters \o "{|}~"

ToLowerChar(c) ==
    IF IndexOf(UpperCaseLetters, c) > 0
    THEN Ch(LowerCaseLetters, IndexOf(UpperCaseLetters, c))
    ELSE c

RECURSIVE ToLowerCase(_)
ToLowerCase(s) == IF s = "" THEN "" ELSE ToLowerChar(Ch(s, 1)) \o ToLowerCase(Rest(s, 2))

\* the Blob constructor's type: lower-cased, or empty when a character lies
\* outside U+0020..U+007E
BlobType(type) ==
    IF \E i \in 1..Len(type) : IndexOf(AsciiPrintable, Ch(type, i)) = 0
    THEN ""
    ELSE ToLowerCase(type)

BlobOf(bytes, type) == [t |-> "Blob", bytes |-> bytes, type |-> BlobType(type)]

FileOf(bytes, name, type, lastModified) ==
    [t |-> "File", bytes |-> bytes, type |-> BlobType(type), name |-> name,
     lastModified |-> lastModified]

ArrayBufferOf(bytes) == [t |-> "ArrayBuffer", bytes |-> bytes]

\* a typed array or DataView: ctor names its constructor, buffer holds the
\* bytes of the whole underlying ArrayBuffer
ViewOf(ctor, buffer, byteOffset, byteLength) ==
    [t |-> "view", ctor |-> ctor, buffer |-> buffer,
     byteOffset |-> byteOffset, byteLength |-> byteLength]

\* ArrayBuffer.prototype.slice(begin, end) for 0 <= begin
ArrayBufferSlice(bytes, begin, end) ==
    LET first == IF begin > Len(bytes) THEN Len(bytes) ELSE begin
        final == IF end > Len(bytes) THEN Len(bytes) ELSE end
    IN  IF final <= first THEN <<>> ELSE SubSeq(bytes, first + 1, final)

\* values of no supported type
FunctionValue == [t |-> "function"]

SymbolValue == [t |-> "symbol"]

BigIntValue == [t |-> "bigint"]

\* an instance of a class (Map, Set, a user class); ctor is the name of its
\* constructor, "" when it has none
InstanceOf(ctor) == [t |-> "instance", ctor |-> ctor]

-----------------------------------------------------------------------------
(* Errors (errors.ts) *)

\* new StorageError(code, message)
StorageError(code, message) == [name |-> "StorageError", code |-> code, message |-> message]

\* an exception of the platform: TypeError, RangeError, SyntaxError,
\* InvalidCharacterError, Error
NativeError(name, message) == [name |-> name, code |-> "", message |-> message]

\* error instanceof StorageError
IsStorageError(error) == error.name = "StorageError"

\* StorageErrors.timeout(operation), which no call of the codec makes
timeout(operation) ==
    StorageError("TIMEOUT", "Operation \"" \o operation \o "\" timed out after 5 seconds")

\* StorageErrors.invalidValue(type)
invalidValue(type) ==
    StorageError("INVALID_VALUE",
        "Cannot store value of type \"" \o type
        \o "\". Supported types: primitives, objects, arrays, Date, RegExp, Blob, File, ArrayBuffer, TypedArrays")

\* StorageErrors.invalidKey(reason)
invalidKey(reason) == StorageError("INVALID_VALUE", "Invalid key: " \o reason)

\* an Error object of the platform or of a storage backend; id is its
\* identity
ErrorObject(id, name, message) == [t |-> "Error", id |-> id, name |-> name, message |-> message]

\* new StorageError(code, message, context, originalError) as a value
StorageErrorObject(code, message, context, originalError) ==
    [t |-> "StorageError", name |-> "StorageError", code |-> code, message |-> message,
     context |-> context, originalError |-> originalError]

\* fromNativeError that takes a timeout for any other failure
fromNativeErrorNoTimeout(error, context) ==
    IF error.name = "QuotaExceededError" THEN
        StorageErrorObject("QUOTA_EXCEEDED",
            "Storage quota exceeded. Consider clearing old data or using a smaller payload",
            context, error)
    ELSE IF error.name = "VersionError" THEN
        StorageErrorObject("VERSION_MISMATCH",
            "Database version conflict. Close other tabs or refresh the page", context, error)
    ELSE StorageErrorObject("OPERATION_FAILED",
            "Storage operation failed: " \o error.message, context, error)

\* StorageError.fromNativeError(error, context)
fromNativeError(error, context) ==
    With(error.name, LAMBDA errorName :
        IF errorName = "QuotaExceededError" THEN
            StorageErrorObject("QUOTA_EXCEEDED",
                "Storage quota exceeded. Consider clearing old data or using a smaller payload",
                context, error)
        ELSE IF errorName = "TimeoutError" THEN
            StorageErrorObject("TIMEOUT", "Storage operation timed out after 5 seconds",
                               context, error)
        ELSE IF errorName = "VersionError" THEN
            StorageErrorObject("VERSION_MISMATCH",
                "Database version conflict. Close other tabs or refresh the page",
                context, error)
        ELSE IF errorName \in {"InvalidStateError", "UnknownError", "NotFoundError"} THEN
            StorageErrorObject("OPERATION_FAILED",
                "Storage operation failed: " \o error.message, context, error)
        ELSE StorageErrorObject("OPERATION_FAILED",
                "Storage operation failed: " \o error.message, context, error))

-----------------------------------------------------------------------------
(* The classifier (validation.ts) *)

Primitives == {"null", "undefined", "boolean", "string", "number"}

\* typeof value
TypeOf(v) ==
    IF v.t \in {"undefined", "boolean", "string", "number", "function", "symbol", "bigint"}
    THEN v.t
    ELSE "object"

isPlainObject(h, value) ==
    IF TypeOf(value) # "object" \/ value.t = "null" THEN FALSE
    ELSE Deref(h, value).t = "Object"

\* the engine's call stack is deeper than any nesting the values of the
\* model have without a cycle: a recursion overflows it only on a cycle
CallStackLimit(h) == Len(h) + 2

\* isSerializable at recursion depth d: "true", "false", or "RangeError" when
\* the call stack overflows.  every() visits the elements in order and
\* stops at the first that is not serializable.
RECURSIVE isSerializableAt(_, _, _)
RECURSIVE everySerializable(_, _, _, _)
everySerializable(h, items, i, d) ==
    IF i > Len(items) THEN "true"
    ELSE LET r == isSerializableAt(h, items[i], d + 1) IN
         IF r = "true" THEN everySerializable(h, items, i + 1, d) ELSE r

isSerializableAt(h, value, d) ==
    IF d > CallStackLimit(h) THEN "RangeError"
    ELSE IF value.t \in {"null", "undefined"} THEN "true"
    ELSE IF TypeOf(value) \in {"string", "number", "boolean"} THEN "true"
    ELSE IF value.t = "Date" THEN "true"
    ELSE IF value.t = "RegExp" THEN "true"
    ELSE IF value.t \in {"Blob", "File"} THEN "true"
    ELSE IF value.t = "File" THEN "true"
    ELSE IF value.t = "ArrayBuffer" THEN "true"
    ELSE IF value.t = "view" THEN "true"
    ELSE IF Deref(h, value).t = "Array" THEN
        everySerializable(h, Deref(h, value).items, 1, d)
    ELSE IF isPlainObject(h, value) THEN
        everySerializable(h, Deref(h, value).vals, 1, d)
    ELSE "false"

isSerializable(h, value) == isSerializableAt(h, value, 1)

getTypeName(h, value) ==
    IF value.t = "null" THEN "null"
    ELSE IF value.t = "undefined" THEN "undefined"
    ELSE IF Deref(h, value).t = "Array" THEN "Array"
    ELSE IF value.t = "Date" THEN "Date"
    ELSE IF value.t = "RegExp" THEN "RegExp"
    ELSE IF value.t = "File" THEN "File"
    ELSE IF value.t \in {"Blob", "File"} THEN "Blob"
    ELSE IF value.t = "ArrayBuffer" THEN "ArrayBuffer"
    ELSE IF value.t = "view" THEN value.ctor
    ELSE IF TypeOf(value) = "object" THEN
        IF Deref(h, value).t = "instance" /\ Deref(h, value).ctor # ""
        THEN Deref(h, value).ctor
        ELSE "Object"
    ELSE TypeOf(value)

\* what a synchronous call returned (val) or the exception it threw (error)
Returned(v) == [kind |-> "returned", val |-> v, error |-> [name |-> "", code |-> "", message |-> ""]]

Threw(err) == [kind |-> "threw", val |-> Undefined, error |-> err]

\* the longest key validateKey accepts
MaxKeyLength == 1000

\* validateKey with the limit one character further
validateKeyOffByOne(key) ==
    IF TypeOf(key) # "string" THEN
        Threw(invalidKey("Key must be a string, got " \o TypeOf(key)))
    ELSE IF Len(key.s) = 0 THEN Threw(invalidKey("Key cannot be empty"))
    ELSE IF Len(key.s) > MaxKeyLength + 1 THEN
        Threw(invalidKey("Key too long (" \o NatToString(Len(key.s))
                         \o " characters). Maximum is 1000 characters"))
    ELSE Returned(Undefined)

\* validateKey(key)
validateKey(key) ==
    IF TypeOf(key) # "string" THEN
        Threw(invalidKey("Key must be a string, got " \o TypeOf(key)))
    ELSE IF Len(key.s) = 0 THEN Threw(invalidKey("Key cannot be empty"))
    ELSE IF Len(key.s) > MaxKeyLength THEN
        Threw(invalidKey("Key too long (" \o NatToString(Len(key.s))
                         \o " characters). Maximum is 1000 characters"))
    ELSE Returned(Undefined)

-----------------------------------------------------------------------------
(* JSON.stringify *)

\* QuoteJSONString
RECURSIVE QuoteChars(_)
QuoteChars(s) ==
    LET c == Ch(s, 1) IN
    IF s = "" THEN ""
    ELSE (CASE c = "\"" -> "\\\""
            [] c = "\\" -> "\\\\"
            [] c = "\n" -> "\\n"
            [] c = "\t" -> "\\t"
            [] c = "\r" -> "\\r"
            [] c = "\f" -> "\\f"
            [] OTHER -> c) \o QuoteChars(Rest(s, 2))

Quote(s) == "\"" \o QuoteChars(s) \o "\""

\* the elements of a typed array over its byte range, as Numbers
ViewBytes(v) == ArrayBufferSlice(v.buffer, v.byteOffset, v.byteOffset + v.byteLength)

ViewElements(v) ==
    LET bytes == ViewBytes(v) IN
    IF v.ctor = "Int8Array" THEN
        [i \in 1..Len(bytes) |-> Num(IF bytes[i] > 127 THEN bytes[i] - 256 ELSE bytes[i])]
    ELSE IF v.ctor = "Uint16Array" THEN
        [i \in 1..(Len(bytes) \div 2) |-> Num(bytes[2 * i - 1] + 256 * bytes[2 * i])]
    ELSE IF v.ctor = "DataView" THEN <<>>
    ELSE [i \in 1..Len(bytes) |-> Num(bytes[i])]

\* SerializeJSONProperty: k is "string" (the text s), "undefined" (the value
\* has no JSON form) or "TypeError" (a cycle, a BigInt).  stack holds the
\* heap objects being serialized.  Own keys are written in insertion order.
RECURSIVE JSONProperty(_, _, _)
RECURSIVE JSONElements(_, _, _, _)
RECURSIVE JSONMembers(_, _, _, _, _)
JSONElements(h, items, i, stack) ==
    IF i > Len(items) THEN [k |-> "string", s |-> ""]
    ELSE LET r == JSONProperty(h, items[i], stack) IN
         IF r.k = "TypeError" THEN r
         ELSE LET rest == JSONElements(h, items, i + 1, stack) IN
              IF rest.k = "TypeError" THEN rest
              ELSE [k |-> "string",
                    s |-> (IF r.k = "undefined" THEN "null" ELSE r.s)
                          \o (IF i < Len(items) THEN "," ELSE "") \o rest.s]

\* every member is written with a leading ","
JSONMembers(h, keys, vals, i, stack) ==
    IF i > Len(keys) THEN [k |-> "string", s |-> ""]
    ELSE LET r == JSONProperty(h, vals[i], stack) IN
         IF r.k = "TypeError" THEN r
         ELSE LET rest == JSONMembers(h, keys, vals, i + 1, stack) IN
              IF rest.k = "TypeError" THEN rest
              ELSE [k |-> "string",
                    s |-> (IF r.k = "undefined" THEN ""
                           ELSE "," \o Quote(keys[i]) \o ":" \o r.s) \o rest.s]

JSONProperty(h, v, stack) ==
    LET o == Deref(h, v)
        inner == IF v.t = "ref" THEN stack \cup {v.id} ELSE stack
    IN
    IF v.t = "null" THEN [k |-> "string", s |-> "null"]
    ELSE IF v.t \in {"undefined", "function", "symbol"} THEN [k |-> "undefined", s |-> ""]
    ELSE IF v.t = "boolean" THEN [k |-> "string", s |-> IF v.b THEN "true" ELSE "false"]
    ELSE IF v.t = "string" THEN [k |-> "string", s |-> Quote(v.s)]
    ELSE IF v.t = "number" THEN
        [k |-> "string", s |-> IF v.cls = "finite" THEN NumberToString(v) ELSE "null"]
    ELSE IF v.t = "bigint" THEN [k |-> "TypeError", s |-> ""]
    ELSE IF v.t = "Date" THEN   \* Date.prototype.toJSON
        [k |-> "string", s |-> IF v.valid THEN Quote(toISOString(v).s) ELSE "null"]
    ELSE IF v.t = "ref" /\ v.id \in stack THEN [k |-> "TypeError", s |-> ""]
    ELSE IF o.t = "Array" THEN
        LET r == JSONElements(h, o.items, 1, inner) IN
        IF r.k = "TypeError" THEN r ELSE [k |-> "string", s |-> "[" \o r.s \o "]"]
    ELSE IF o.t = "Object" THEN
        LET r == JSONMembers(h, o.keys, o.vals, 1, inner) IN
        IF r.k = "TypeError" THEN r ELSE [k |-> "string", s |-> "{" \o Rest(r.s, 2) \o "}"]
    ELSE IF o.t = "view" THEN
        LET el == ViewElements(o)
            r == JSONMembers(h, [i \in 1..Len(el) |-> NatToString(i - 1)], el, 1, inner)
        IN  [k |-> "string", s |-> "{" \o Rest(r.s, 2) \o "}"]
    ELSE [k |-> "string", s |-> "{}"]   \* no own enumerable property

JSONStringify(h, v) == JSONProperty(h, v, {})

-----------------------------------------------------------------------------
(* JSON.parse: a recursive descent over the characters of the text.  Every *)
(* parser takes the position to read at and gives the position after what  *)
(* it read; ok = FALSE is the SyntaxError.                                 *)

JSONWhitespace == {" ", "\t", "\n", "\r"}

ParseFailure == [ok |-> FALSE, val |-> Undefined, pos |-> 0]

RECURSIVE SkipWhitespace(_, _)
SkipWhitespace(s, i) ==
    IF Ch(s, i) \in JSONWhitespace THEN SkipWhitespace(s, i + 1) ELSE i

\* the position of the first character at or after i that is no digit
RECURSIVE SkipDigits(_, _)
SkipDigits(s, i) == IF IsDigit(Ch(s, i)) THEN SkipDigits(s, i + 1) ELSE i

HexDigits == "0123456789abcdefABCDEF"

HexValue(c) == IF IndexOf(HexDigits, c) <= 16 THEN IndexOf(HexDigits, c) - 1
               ELSE IndexOf(HexDigits, c) - 7

\* the character of an escape \uXXXX written at i; a character the strings
\* of the model cannot hold is kept as the escape that names it
UnicodeEscape(s, i) ==
    With(4096 * HexValue(Ch(s, i + 2)) + 256 * HexValue(Ch(s, i + 3))
         + 16 * HexValue(Ch(s, i + 4)) + HexValue(Ch(s, i + 5)), LAMBDA code :
        IF code \in 32..95 THEN Ch(AsciiPrintable, code - 31)
        ELSE IF code \in 97..126 THEN Ch(AsciiPrintable, code - 32)
        ELSE IF code = 9 THEN "\t"
        ELSE IF code = 10 THEN "\n"
        ELSE IF code = 12 THEN "\f"
        ELSE IF code = 13 THEN "\r"
        ELSE Slice(s, i, i + 5))

\* the characters of a string up to its closing quote
RECURSIVE ParseChars(_, _)
ParseChars(s, i) ==
    LET c == Ch(s, i)
        e == Ch(s, i + 1)
    IN
    IF c = "" \/ c \in {"\n", "\t", "\r", "\f"} THEN [ok |-> FALSE, str |-> "", pos |-> 0]
    ELSE IF c = "\"" THEN [ok |-> TRUE, str |-> "", pos |-> i + 1]
    ELSE IF c = "\\" THEN
        IF e \in {"\"", "\\", "/", "b", "f", "n", "r", "t"} THEN
            LET r == ParseChars(s, i + 2) IN
            [ok |-> r.ok, pos |-> r.pos,
             str |-> (CASE e = "n" -> "\n" [] e = "t" -> "\t" [] e = "r" -> "\r"
                        [] e = "f" -> "\f" [] e = "b" -> "\\b" [] OTHER -> e) \o r.str]
        ELSE IF e = "u" /\ \A j \in 2..5 : IndexOf(HexDigits, Ch(s, i + j)) > 0 THEN
            LET r == ParseChars(s, i + 6) IN
            [ok |-> r.ok, pos |-> r.pos, str |-> UnicodeEscape(s, i) \o r.str]
        ELSE [ok |-> FALSE, str |-> "", pos |-> 0]
    ELSE LET r == ParseChars(s, i + 1) IN
         [ok |-> r.ok, pos |-> r.pos, str |-> c \o r.str]

\* -? (0 | [1-9][0-9]*) (. [0-9]+)? ([eE] [+-]? [0-9]+)?
ParseNumber(s, i) ==
    LET neg == Ch(s, i) = "-"
        i0 == IF neg THEN i + 1 ELSE i
        i1 == IF Ch(s, i0) = "0" THEN i0 + 1 ELSE SkipDigits(s, i0)
        hasFrac == Ch(s, i1) = "."
        i2 == IF hasFrac THEN SkipDigits(s, i1 + 1) ELSE i1
        hasExp == Ch(s, i2) \in {"e", "E"}
        i3 == IF hasExp /\ Ch(s, i2 + 1) \in {"+", "-"} THEN i2 + 2 ELSE i2 + 1
        i4 == IF hasExp THEN SkipDigits(s, i3) ELSE i2
        int == Slice(s, i0, i1 - 1)
        frac == IF hasFrac THEN Slice(s, i1 + 1, i2 - 1) ELSE ""
        exp == IF hasExp
               THEN (IF Ch(s, i2 + 1) = "-" THEN -1 ELSE 1) * StringToNat(Slice(s, i3, i4 - 1))
               ELSE 0
    IN  IF i1 = i0 \/ (hasFrac /\ i2 = i1 + 1) \/ (hasExp /\ i4 = i3)
        THEN ParseFailure
        ELSE [ok |-> TRUE, pos |-> i4,
              val |-> NormalizeNumber(neg, StringToNat(int \o frac), exp - Len(frac))]

\* CreateDataProperty on the parsed record: a repeated key keeps its place
\* and takes the later value
DefineMember(o, key, val) ==
    IF \E j \in 1..Len(o.keys) : o.keys[j] = key
    THEN [o EXCEPT !.vals = [j \in 1..Len(o.vals) |->
                                 IF o.keys[j] = key THEN val ELSE o.vals[j]]]
    ELSE [o EXCEPT !.keys = Append(o.keys, key), !.vals = Append(o.vals, val)]

RECURSIVE ParseValue(_, _)
RECURSIVE ParseElements(_, _, _)
RECURSIVE ParseMembers(_, _, _)

\* at i: the next element of an array whose earlier elements are items
ParseElements(s, i, items) ==
    LET r == ParseValue(s, i)
        j == SkipWhitespace(s, r.pos)
    IN  IF ~r.ok THEN ParseFailure
        ELSE IF Ch(s, j) = "," THEN ParseElements(s, j + 1, Append(items, r.val))
        ELSE IF Ch(s, j) = "]" THEN
            [ok |-> TRUE, val |-> ArrayOf(Append(items, r.val)), pos |-> j + 1]
        ELSE ParseFailure

\* at i: the next member of the record o
ParseMembers(s, i, o) ==
    LET k0 == SkipWhitespace(s, i)
        key == IF Ch(s, k0) = "\"" THEN ParseChars(s, k0 + 1)
               ELSE [ok |-> FALSE, str |-> "", pos |-> 0]
        c == SkipWhitespace(s, key.pos)
        r == ParseValue(s, c + 1)
        j == SkipWhitespace(s, r.pos)
    IN  IF ~key.ok \/ Ch(s, c) # ":" THEN ParseFailure
        ELSE IF ~r.ok THEN ParseFailure
        ELSE IF Ch(s, j) = "," THEN ParseMembers(s, j + 1, DefineMember(o, key.str, r.val))
        ELSE IF Ch(s, j) = "}" THEN
            [ok |-> TRUE, val |-> DefineMember(o, key.str, r.val), pos |-> j + 1]
        ELSE ParseFailure

ParseValue(s, i0) ==
    LET i == SkipWhitespace(s, i0)
        c == Ch(s, i)
    IN  IF c = "{" THEN
            IF Ch(s, SkipWhitespace(s, i + 1)) = "}"
            THEN [ok |-> TRUE, val |-> ObjectOf(<<>>, <<>>), pos |-> SkipWhitespace(s, i + 1) + 1]
            ELSE ParseMembers(s, i + 1, ObjectOf(<<>>, <<>>))
        ELSE IF c = "[" THEN
            IF Ch(s, SkipWhitespace(s, i + 1)) = "]"
            THEN [ok |-> TRUE, val |-> ArrayOf(<<>>), pos |-> SkipWhitespace(s, i + 1) + 1]
            ELSE ParseElements(s, i + 1, <<>>)
        ELSE IF c = "\"" THEN
            LET r == ParseChars(s, i + 1) IN
            IF r.ok THEN [ok |-> TRUE, val |-> Str(r.str), pos |-> r.pos] ELSE ParseFailure
        ELSE IF c = "-" \/ IsDigit(c) THEN ParseNumber(s, i)
        ELSE IF Slice(s, i, i + 3) = "true"
            THEN [ok |-> TRUE, val |-> Bool(TRUE), pos |-> i + 4]
        ELSE IF Slice(s, i, i + 4) = "false"
            THEN [ok |-> TRUE, val |-> Bool(FALSE), pos |-> i + 5]
        ELSE IF Slice(s, i, i + 3) = "null"
            THEN [ok |-> TRUE, val |-> Null, pos |-> i + 4]
        ELSE ParseFailure

\* JSON.parse(text): the whole text is one value between whitespace
JSONParse(text) ==
    LET r == ParseValue(text, 1) IN
    IF r.ok /\ SkipWhitespace(text, r.pos) > Len(text)
    THEN [ok |-> TRUE, val |-> r.val]
    ELSE [ok |-> FALSE, val |-> Undefined]

-----------------------------------------------------------------------------
(* Property access and the conversions of the language on parsed values *)

\* value[key] for a key that no prototype defines; value is not null or
\* undefined
Get(value, key) ==
    IF value.t = "Object" /\ \E j \in 1..Len(value.keys) : value.keys[j] = key
    THEN LET j == CHOOSE j \in 1..Len(value.keys) : value.keys[j] = key IN value.vals[j]
    ELSE Undefined

HasOwn(value, key) == value.t = "Object" /\ \E j \in 1..Len(value.keys) : value.keys[j] = key

\* String(v) / ToString(v); ok = FALSE is the TypeError of a value that
\* cannot be converted to a primitive.  A parsed record converts through
\* Object.prototype.toString unless it has an own (never callable)
\* "toString"; a parsed array converts through join.
RECURSIVE ToStringJS(_)
RECURSIVE JoinElements(_, _)
JoinElements(items, i) ==
    IF i > Len(items) THEN [ok |-> TRUE, s |-> ""]
    ELSE LET r == IF items[i].t \in {"null", "undefined"}
                  THEN [ok |-> TRUE, s |-> ""]
                  ELSE ToStringJS(items[i])
             rest == JoinElements(items, i + 1)
         IN  IF ~r.ok THEN r
             ELSE IF ~rest.ok THEN rest
             ELSE [ok |-> TRUE, s |-> r.s \o (IF i < Len(items) THEN "," ELSE "") \o rest.s]

ToStringJS(v) ==
    IF v.t \in Primitives THEN [ok |-> TRUE, s |-> PrimitiveToString(v)]
    ELSE IF v.t = "Array" THEN JoinElements(v.items, 1)
    ELSE IF HasOwn(v, "toString") THEN [ok |-> FALSE, s |-> ""]
    ELSE [ok |-> TRUE, s |-> "[object Object]"]

\* ToBoolean(v)
Truthy(v) ==
    CASE v.t \in {"null", "undefined"} -> FALSE
      [] v.t = "boolean" -> v.b
      [] v.t = "string" -> v.s # ""
      [] v.t = "number" -> ~(v.cls = "NaN" \/ (v.cls = "finite" /\ v.m = 0))
      [] OTHER -> TRUE

RECURSIVE TrimStart(_)
TrimStart(s) == IF Ch(s, 1) \in AsciiWhitespace THEN TrimStart(Rest(s, 2)) ELSE s

RECURSIVE TrimEnd(_)
TrimEnd(s) ==
    IF Ch(s, Len(s)) \in AsciiWhitespace THEN TrimEnd(SubSeq(s, 1, Len(s) - 1)) ELSE s

\* StringToNumber on decimal literals; any other text is NaN
StringToNumber(str) ==
    LET s == TrimEnd(TrimStart(str))
        body == IF Ch(s, 1) = "+" THEN Rest(s, 2) ELSE s
        r == ParseNumber(body, 1)
    IN  IF s = "" THEN Num(0)
        ELSE IF r.ok /\ r.pos = Len(body) + 1 THEN r.val
        ELSE NaN

\* ToNumber(v); ok = FALSE is the TypeError of ToPrimitive
ToNumber(v) ==
    CASE v.t = "number" -> [ok |-> TRUE, val |-> v]
      [] v.t = "null" -> [ok |-> TRUE, val |-> Num(0)]
      [] v.t = "undefined" -> [ok |-> TRUE, val |-> NaN]
      [] v.t = "boolean" -> [ok |-> TRUE, val |-> Num(IF v.b THEN 1 ELSE 0)]
      [] v.t = "string" -> [ok |-> TRUE, val |-> StringToNumber(v.s)]
      [] OTHER -> (LET r == ToStringJS(v) IN
                   IF r.ok THEN [ok |-> TRUE, val |-> StringToNumber(r.s)]
                   ELSE [ok |-> FALSE, val |-> NaN])

\* the integer part of a finite Number (truncation toward zero), +0 for NaN
\* and for either zero
ToIntegerNumber(v) ==
    IF v.cls = "NaN" THEN Num(0)
    ELSE IF v.cls = "Infinity" THEN v
    ELSE IF v.e >= 0 THEN (IF v.m = 0 THEN Num(0) ELSE v)
    ELSE NormalizeNumber(v.neg /\ v.m \div Pow10(0 - v.e) # 0, v.m \div Pow10(0 - v.e), 0)

\* new Date(number): the time value of a Number; the Numbers of the model
\* lie far inside the time range
DateFromNumber(v) ==
    LET ms == IntegerValue(ToIntegerNumber(v)) IN
    IF v.cls # "finite" THEN InvalidDate
    ELSE DateOf(ms \div MsPerDay, ms % MsPerDay)

-----------------------------------------------------------------------------
(* The Serializer (core/serializer.ts): encoding *)

NoError == [name |-> "", code |-> "", message |-> ""]

NoEnvelope == ObjectOf(<<>>, <<>>)

\* how createEnvelope stands: settled with an envelope, failed with an
\* exception, or waiting for the FileReader of a Blob or File
Settled(e) == [k |-> "resolved", env |-> e, error |-> NoError]

Failed(err) == [k |-> "rejected", env |-> NoEnvelope, error |-> err]

Reading == [k |-> "reading", env |-> NoEnvelope, error |-> NoError]

\* an envelope that carries an empty meta
EnvelopeWithEmptyMeta(tag, data) ==
    ObjectOf(<<"__v", "__t", "data", "meta">>, <<Num(1), Str(tag), data, ObjectOf(<<>>, <<>>)>>)

\* { __v: 1, __t: tag, data }
Envelope(tag, data) == ObjectOf(<<"__v", "__t", "data">>, <<Num(1), Str(tag), data>>)

\* { __v: 1, __t: tag, data, meta }
EnvelopeWithMeta(tag, data, meta) ==
    ObjectOf(<<"__v", "__t", "data", "meta">>, <<Num(1), Str(tag), data, meta>>)

\* arrayBufferToBase64 with the "=" padding left off
arrayBufferToBase64Unpadded(bytes) ==
    StripPadding(btoa([i \in 1..Len(bytes) |-> bytes[i]]).s)

\* String.fromCharCode of every byte, then btoa
arrayBufferToBase64(bytes) ==
    LET binary == [i \in 1..Len(bytes) |-> bytes[i]] IN btoa(binary).s

serializeArrayBuffer(bytes) ==
    EnvelopeWithMeta("arraybuffer", Str(arrayBufferToBase64(bytes)),
                     ObjectOf(<<"byteLength">>, <<Num(Len(bytes))>>))

\* serializeTypedArray without the slice: the whole buffer of the view
serializeTypedArrayWholeBuffer(typedArray) == serializeArrayBuffer(typedArray.buffer)

serializeTypedArray(typedArray) ==
    serializeArrayBuffer(
        ArrayBufferSlice(typedArray.buffer, typedArray.byteOffset,
                         typedArray.byteOffset + typedArray.byteLength))

\* FileReader.readAsDataURL: the result the reader holds at loadend
readAsDataURL(blob) ==
    "data:" \o (IF blob.type = "" THEN "application/octet-stream" ELSE blob.type)
    \o ";base64," \o btoa(blob.bytes).s

\* result.split(',')[1]: k = "undefined" when the text has no ","
SplitSecond(result) ==
    LET p == IndexOf(result, ",")
        rest == Rest(result, p + 1)
        q == IndexOf(rest, ",")
    IN  IF p = 0 THEN [k |-> "undefined", s |-> ""]
        ELSE [k |-> "string", s |-> IF q = 0 THEN rest ELSE Slice(rest, 1, q - 1)]

\* the onloadend handler of blobToBase64: ok = FALSE is the rejection with
\* Error('Failed to convert Blob to base64')
blobToBase64(result) ==
    With(SplitSecond(result), LAMBDA base64 :
        IF base64.k = "undefined" \/ base64.s = ""
        THEN [ok |-> FALSE, s |-> "",
              error |-> NativeError("Error", "Failed to convert Blob to base64")]
        ELSE [ok |-> TRUE, s |-> base64.s, error |-> NoError])

\* serializeBlob after its await
serializeBlob(blob, base64) ==
    EnvelopeWithMeta("blob", Str(base64),
        ObjectOf(<<"type", "size">>, <<Str(blob.type), Num(Len(blob.bytes))>>))

\* serializeFile after its await
serializeFile(file, base64) ==
    EnvelopeWithMeta("file", Str(base64),
        ObjectOf(<<"name", "type", "size", "lastModified">>,
                 <<Str(file.name), Str(file.type), Num(Len(file.bytes)), file.lastModified>>))

\* createEnvelope up to its first suspension: k is "resolved" (env), "rejected"
\* (error) or "reading" (a FileReader was started on the Blob or File)
createEnvelope(h, value) ==
    IF value.t = "null" THEN Settled(Envelope("null", Null))
    ELSE IF value.t = "undefined" THEN Settled(Envelope("undefined", Null))
    ELSE IF TypeOf(value) = "string" THEN Settled(Envelope("string", value))
    ELSE IF TypeOf(value) = "number" THEN Settled(Envelope("number", value))
    ELSE IF TypeOf(value) = "boolean" THEN Settled(Envelope("boolean", value))
    ELSE IF value.t = "Date" THEN
        With(toISOString(value), LAMBDA iso :
            IF iso.ok THEN Settled(Envelope("date", Str(iso.s)))
            ELSE Failed(NativeError("RangeError", "Invalid time value")))
    ELSE IF value.t = "RegExp" THEN
        Settled(EnvelopeWithMeta("regexp", Str(value.source),
                                 ObjectOf(<<"flags">>, <<Str(value.flags)>>)))
    ELSE IF value.t = "File" THEN Reading
    ELSE IF value.t \in {"Blob", "File"} THEN Reading
    ELSE IF value.t = "ArrayBuffer" THEN Settled(serializeArrayBuffer(value.bytes))
    ELSE IF value.t = "view" THEN Settled(serializeTypedArray(value))
    ELSE IF Deref(h, value).t = "Array" THEN Settled(Envelope("array", value))
    ELSE IF isPlainObject(h, value) THEN Settled(Envelope("object", value))
    ELSE Failed(invalidValue(getTypeName(h, value)))

-----------------------------------------------------------------------------
(* The Serializer: decoding *)

\* what a call returned (val) or the exception it threw (error)
Return(v) == [k |-> "return", val |-> v, error |-> NoError]

Throw(err) == [k |-> "throw", val |-> Undefined, error |-> err]

\* the TypeError of a conversion of an object to a primitive
NoPrimitive == NativeError("TypeError", "Cannot convert object to primitive value")

\* the DOMException of atob
NotBase64 ==
    NativeError("InvalidCharacterError", "The string to be decoded is not correctly encoded")

\* atob(base64) and the loop over charCodeAt: the bytes
DecodeBytes(base64) ==
    With(ToStringJS(base64), LAMBDA text :
        IF ~text.ok THEN Throw(NoPrimitive)
        ELSE With(atob(text.s), LAMBDA binaryString :
            IF ~binaryString.ok THEN Throw(NotBase64)
            ELSE Return([i \in 1..Len(binaryString.bin) |-> binaryString.bin[i]])))

\* type || '' as the type option of the Blob
BlobTypeOption(type) == IF Truthy(type) THEN ToStringJS(type) ELSE [ok |-> TRUE, s |-> ""]

\* base64ToBlob(base64, type)
base64ToBlob(base64, type) ==
    With(DecodeBytes(base64), LAMBDA bytes :
        IF bytes.k = "throw" THEN bytes
        ELSE With(BlobTypeOption(type), LAMBDA mime :
            IF ~mime.ok THEN Throw(NoPrimitive)
            ELSE Return(BlobOf(bytes.val, mime.s))))

\* an argument or option left undefined takes its default, any other is
\* converted to a string
StringOption(option, default) ==
    IF option.t = "undefined" THEN [ok |-> TRUE, s |-> default] ELSE ToStringJS(option)

\* the lastModified option: now is Date.now(), the last-modified time of a
\* File made without one
ModifiedOption(lastModified, now) ==
    IF lastModified.t = "undefined" THEN [ok |-> TRUE, val |-> now]
    ELSE ToNumber(lastModified)

\* base64ToFile(base64, name, type, lastModified)
base64ToFile(base64, name, type, lastModified, now) ==
    With(base64ToBlob(base64, type), LAMBDA blob :
        IF blob.k = "throw" THEN blob
        ELSE With(ToStringJS(name), LAMBDA fileName :
             With(StringOption(type, ""), LAMBDA fileType :
             With(ModifiedOption(lastModified, now), LAMBDA modified :
                IF ~fileName.ok \/ ~fileType.ok \/ ~modified.ok THEN Throw(NoPrimitive)
                ELSE Return(FileOf(blob.val.bytes, fileName.s, fileType.s,
                                   ToIntegerNumber(modified.val)))))))

base64ToArrayBuffer(base64) ==
    With(DecodeBytes(base64), LAMBDA bytes :
        IF bytes.k = "throw" THEN bytes ELSE Return(ArrayBufferOf(bytes.val)))

\* new Date(data)
DateConstruct(data) ==
    IF data.t = "string" THEN Return(DateParse(data.s))
    ELSE IF data.t \in Primitives THEN Return(DateFromNumber(ToNumber(data).val))
    ELSE With(ToStringJS(data), LAMBDA text :
            IF text.ok THEN Return(DateParse(text.s)) ELSE Throw(NoPrimitive))

\* new RegExp(data, flags)
RegExpConstruct(data, flags) ==
    With(StringOption(data, ""), LAMBDA pattern :
    With(StringOption(flags, ""), LAMBDA f :
        IF ~pattern.ok \/ ~f.ok THEN Throw(NoPrimitive)
        ELSE With(RegExpCreate(pattern.s, f.s), LAMBDA created :
            IF created.ok THEN Return(created.val)
            ELSE Throw(NativeError("SyntaxError", "Invalid regular expression")))))

\* meta?.key
OptionalGet(meta, key) == IF meta.t \in {"null", "undefined"} THEN Undefined ELSE Get(meta, key)

\* a message that leaves out the value it is about
CorruptionUnnamed(prefix, value) == Throw(StorageError("CORRUPTION", prefix))

\* the template literal of a message: prefix followed by String(value)
Corruption(prefix, value) ==
    With(ToStringJS(value), LAMBDA text :
        IF text.ok THEN Throw(StorageError("CORRUPTION", prefix \o text.s))
        ELSE Throw(NoPrimitive))

\* a nested ISO text turned back into a Date
Revived(x) == IF x.t = "string" /\ DateParse(x.s).valid THEN DateParse(x.s) ELSE x

\* a decode that gives nested values their type back
extractTaggedReviving(type, data, meta, now) ==
    IF data.t = "Array" THEN
        Return(ArrayOf([i \in 1..Len(data.items) |-> Revived(data.items[i])]))
    ELSE IF data.t = "Object" THEN
        Return([data EXCEPT !.vals = [i \in 1..Len(data.vals) |-> Revived(data.vals[i])]])
    ELSE Return(data)

\* the switch of extractValue on envelope.__t
extractTagged(type, data, meta, now) ==
    With(IF type.t = "string" THEN type.s ELSE "", LAMBDA tag :
        IF tag = "null" THEN Return(Null)
        ELSE IF tag = "undefined" THEN Return(Undefined)
        ELSE IF tag \in {"string", "number", "boolean"} THEN Return(data)
        ELSE IF tag \in {"object", "array"} THEN Return(data)
        ELSE IF tag = "date" THEN DateConstruct(data)
        ELSE IF tag = "regexp" THEN RegExpConstruct(data, OptionalGet(meta, "flags"))
        ELSE IF tag = "blob" THEN base64ToBlob(data, OptionalGet(meta, "type"))
        ELSE IF tag = "file" THEN
            base64ToFile(data, OptionalGet(meta, "name"), OptionalGet(meta, "type"),
                         OptionalGet(meta, "lastModified"), now)
        ELSE IF tag = "arraybuffer" THEN base64ToArrayBuffer(data)
        ELSE Corruption("Unknown type in envelope: ", type))

\* extractValue without the check of the version
extractValueAnyVersion(env, now) ==
    IF env.t = "null" THEN
        Throw(NativeError("TypeError", "Cannot read properties of null (reading '__t')"))
    ELSE extractTagged(Get(env, "__t"), Get(env, "data"), Get(env, "meta"), now)

\* extractValue(envelope)
extractValue(env, now) ==
    IF env.t = "null" THEN
        Throw(NativeError("TypeError", "Cannot read properties of null (reading '__v')"))
    ELSE IF ~StrictEquals(Get(env, "__v"), Num(1)) THEN
        Corruption("Unsupported envelope format version: ", Get(env, "__v"))
    ELSE extractTagged(Get(env, "__t"), Get(env, "data"), Get(env, "meta"), now)

NoOutcome == [kind |-> "none", val |-> Undefined, error |-> NoError]

\* a catch clause that throws every exception again
catchClauseRethrow(error) == [kind |-> "threw", val |-> Undefined, error |-> error]

\* a catch clause that returns null for every exception
catchClauseSwallow(error) == [kind |-> "returned", val |-> Null, error |-> NoError]

\* the catch clause of deserialize: a StorageError is thrown again, any
\* other exception is logged and null is returned
catchClause(error) ==
    IF IsStorageError(error)
    THEN [kind |-> "threw", val |-> Undefined, error |-> error]
    ELSE [kind |-> "returned", val |-> Null, error |-> NoError]

\* deserialize(json): kind is "returned" (val) or "threw" (error)
deserialize(json, now) ==
    With(JSONParse(json), LAMBDA parsed :
        IF ~parsed.ok THEN catchClause(NativeError("SyntaxError", "Unexpected token"))
        ELSE With(extractValue(parsed.val, now), LAMBDA r :
            IF r.k = "throw" THEN catchClause(r.error)
            ELSE [kind |-> "returned", val |-> r.val, error |-> NoError]))

-----------------------------------------------------------------------------
(* The values and texts the calls are made with *)

RECURSIVE SeqsUpTo(_, _)
SeqsUpTo(S, n) ==
    IF n = 0 THEN {<<>>}
    ELSE LET shorter == SeqsUpTo(S, n - 1) IN
         shorter \cup {Append(q, x) : q \in {r \in shorter : Len(r) = n - 1}, x \in S}

PrimitiveValues ==
    {Null, Undefined, Bool(TRUE), Bool(FALSE)}
    \cup {Str(x) : x \in {"", "hello world", "null", "a\"b\\c\nd", "{\"__v\":2}"}}
    \cup {Num(0), Num(1), Num(-1), Num(12345), Num(1234567890), Decimal(FALSE, 15, -1),
          Decimal(TRUE, 25, -3), NegativeZero, NaN, PositiveInfinity, NegativeInfinity}

DateValues ==
    {DateOf(0, 0), DateOf(-1, MsPerDay - 1), DateOf(19737, 37800000), DateOf(11016, 1),
     DateOf(2932896, 86399999), DateOf(2932897, 0), DateOf(-719528, 0), DateOf(-719529, 0),
     DateOf(MaxDay, 0), DateOf(0 - MaxDay, 0), InvalidDate}

RegExpValues ==
    {RegExpOf(src, f) :
        src \in {"(?:)", "test", "a\\/b", "[a-z/]+\\d*", "^(a|b)$", "\\\"q\\\""},
        f \in {"", "g", "gi", "gimsuy", "dgimsvy"}}

\* every byte value alone, and the sequences over a sample that takes every
\* bit of a base64 quantum through 0 and 1
BufferBytes ==
    SeqsUpTo({0, 1, 65, 128, 255}, MaxBytes) \cup {<<b>> : b \in 0..255}

BlobBytes == SeqsUpTo({0, 104, 255}, MaxBytes)

ArrayBufferValues == {ArrayBufferOf(b) : b \in BufferBytes}

BlobValues == {BlobOf(b, type) : b \in BlobBytes, type \in {"", "text/plain"}}

FileValues ==
    {FileOf(b, name, type, modified) :
        b \in BlobBytes, name \in {"test.txt", ""}, type \in {"", "application/pdf"},
        modified \in {Num(0), Num(1234567890)}}

\* the views a buffer admits: the offset and length of a Uint16Array are
\* multiples of its element size
ViewValues ==
    {ViewOf(ctor, b, off, len) :
        ctor \in {"Uint8Array", "Int8Array", "DataView"},
        b \in BlobBytes, off \in 0..MaxBytes, len \in 0..MaxBytes}
    \cup {ViewOf("Uint16Array", b, off, len) :
            b \in BlobBytes, off \in {0, 2, 4}, len \in {0, 2, 4}}

WellFormedViews == {v \in ViewValues : v.byteOffset + v.byteLength <= Len(v.buffer)}

UnsupportedValues ==
    {FunctionValue, SymbolValue, BigIntValue, InstanceOf("Map"), InstanceOf("Set"),
     InstanceOf("WeakMap"), InstanceOf("Point"), InstanceOf("")}

\* what an array or record of the caller holds beside a nested one
Leaves == {Num(1), DateOf(0, 0), FunctionValue}

\* one object of the caller: an array or a plain record with at most one
\* leaf and at most one nested object, in either order
HeapNode(kind, leaf, nested, leafFirst) ==
    LET items == IF leafFirst THEN leaf \o nested ELSE nested \o leaf IN
    IF kind = "Array" THEN ArrayOf(items)
    ELSE [t |-> "Object", keys |-> SubSeq(<<"a", "b">>, 1, Len(items)), vals |-> items,
          proto |-> IF kind = "Object" THEN "Object.prototype" ELSE "null"]

LeafChoices == {<<>>} \cup {<<x>> : x \in Leaves}

\* the objects i..n of a heap of n objects: object i holds object i + 1, the
\* last one holds no object or, closing a cycle, one of the objects 1..n
RECURSIVE Chains(_, _)
Chains(i, n) ==
    IF i = n
    THEN {<<HeapNode(k, l, nested, f)>> :
            k \in {"Array", "Object"}, l \in LeafChoices, f \in BOOLEAN,
            nested \in {<<>>} \cup {<<Ref(j)>> : j \in 1..n}}
    ELSE {<<HeapNode(k, l, <<Ref(i + 1)>>, f)>> \o rest :
            k \in {"Array", "Object"}, l \in LeafChoices, f \in BOOLEAN,
            rest \in Chains(i + 1, n)}

\* a record without a prototype: Object.create(null) and its properties
NullPrototypeHeaps ==
    {<<HeapNode("NullPrototype", l, <<>>, TRUE)>> : l \in LeafChoices}

Heaps == UNION {Chains(1, n) : n \in 1..MaxDepth} \cup NullPrototypeHeaps

\* what a flat array or record of the caller holds: values of every
\* supported kind, and values of no supported kind
SpecialLeaves ==
    {Num(1), Str("s"), NaN, Undefined, Null, DateOf(19737, 37800000), InvalidDate,
     RegExpOf("a+", "g"), BlobOf(<<104>>, "text/plain"),
     FileOf(<<104>>, "test.txt", "", Num(0)), ArrayBufferOf(<<1>>),
     ViewOf("Uint8Array", <<1, 2, 3>>, 1, 2), FunctionValue, SymbolValue, InstanceOf("Map")}

\* heaps of one array or one plain record, with one or two of these values
\* and the two examples [1, 2, <function>] and {a: 1, b: <symbol>}
SpecialHeaps ==
    {<<ArrayOf(<<x>>)>> : x \in SpecialLeaves}
    \cup {<<ArrayOf(<<x, y>>)>> : x \in SpecialLeaves, y \in SpecialLeaves}
    \cup {<<ObjectOf(<<"a">>, <<x>>)>> : x \in SpecialLeaves}
    \cup {<<ObjectOf(<<"a", "b">>, <<x, y>>)>> : x \in SpecialLeaves, y \in SpecialLeaves}
    \cup {<<ArrayOf(<<Num(1), Num(2), FunctionValue>>)>>, <<ArrayOf(<<>>)>>,
          <<ObjectOf(<<>>, <<>>)>>}

\* the flat values the classifier is asked about
ClassifierValues ==
    PrimitiveValues \cup DateValues \cup UnsupportedValues
    \cup {RegExpOf("test", ""), BlobOf(<<>>, ""), BlobOf(<<104>>, "text/plain"),
          FileOf(<<104>>, "test.txt", "", Num(0)), FileOf(<<>>, "", "", Num(0)),
          ArrayBufferOf(<<>>), ArrayBufferOf(<<0, 0>>),
          ViewOf("Uint8Array", <<0, 0>>, 0, 2), ViewOf("Float32Array", <<0, 0, 0, 0>>, 0, 4),
          ViewOf("DataView", <<1, 2, 3>>, 1, 1)}

\* the native errors fromNativeError is given: the names it knows, names it
\* does not, the empty name and a name in another case
NativeErrors ==
    {ErrorObject(id, name, message) :
        id \in {1, 2},
        name \in {"QuotaExceededError", "TimeoutError", "VersionError", "InvalidStateError",
                  "UnknownError", "NotFoundError", "Error", "TypeError", "AbortError",
                  "StorageError", "timeouterror", "QuotaExceeded", ""},
        message \in {"", "Quota exceeded", "Unknown error"}}

\* the context argument: left out, empty, or { key: 'test-key' }
Contexts == {Undefined, ObjectOf(<<>>, <<>>), ObjectOf(<<"key">>, <<Str("test-key")>>)}

\* the values, heaps and texts of the calls made at the same time
ConcurrentValues ==
    {Num(1), InvalidDate, FunctionValue, ArrayBufferOf(<<1>>), BlobOf(<<>>, ""),
     BlobOf(<<104>>, "text/plain"), BlobOf(<<0, 255>>, ""),
     FileOf(<<104>>, "test.txt", "", Num(0)), FileOf(<<0, 255>>, "b.bin", "", Num(5))}

ConcurrentHeaps ==
    {<<ArrayOf(<<Num(1), DateOf(0, 0)>>)>>, <<ArrayOf(<<Ref(1)>>)>>,
     <<ObjectOf(<<"a">>, <<Ref(2)>>), ArrayOf(<<Str("s")>>)>>}

ConcurrentTexts ==
    {"{\"__v\":1,\"__t\":\"string\",\"data\":\"hi\"}", "{malformed", "{\"__v\":2}",
     "{\"__v\":1,\"__t\":\"file\",\"data\":\"aA==\",\"meta\":{\"name\":\"f\"}}"}

\* what the caller does to an array or record it has handed to serialize
\* while the promise is pending: push a value (set a new key of a record),
\* replace the first element, or remove every element
Mutations ==
    {[kind |-> "push", val |-> x] : x \in {Num(2), FunctionValue, Ref(1)}}
    \cup {[kind |-> "set", val |-> Str("changed")], [kind |-> "clear", val |-> Undefined]}

\* a JSON object text of the given member texts, the empty ones left out
RECURSIVE JoinMembers(_, _)
JoinMembers(members, i) ==
    IF i > Len(members) THEN ""
    ELSE IF members[i] = "" THEN JoinMembers(members, i + 1)
    ELSE With(JoinMembers(members, i + 1), LAMBDA rest :
            IF rest = "" THEN members[i] ELSE members[i] \o "," \o rest)

ObjectText(members) == "{" \o JoinMembers(members, 1) \o "}"

VersionTexts ==
    {"", "\"__v\":2", "\"__v\":0", "\"__v\":\"1\"", "\"__v\":null", "\"__v\":true",
     "\"__v\":[1]", "\"__v\":{\"toString\":1}", "\"__v\":1.5", "\"__v\":-1"}

CurrentVersionTexts == {"\"__v\":1", "\"__v\":1.0", "\"__v\":1e0", "\"__v\":2,\"__v\":1"}

TagTexts ==
    {"", "\"__t\":\"null\"", "\"__t\":\"undefined\"", "\"__t\":\"string\"",
     "\"__t\":\"number\"", "\"__t\":\"boolean\"", "\"__t\":\"object\"",
     "\"__t\":\"array\"", "\"__t\":\"date\"", "\"__t\":\"regexp\"", "\"__t\":\"blob\"",
     "\"__t\":\"file\"", "\"__t\":\"arraybuffer\"", "\"__t\":\"bogus\"", "\"__t\":\"\"",
     "\"__t\":\"Date\"", "\"__t\":5", "\"__t\":null", "\"__t\":[\"string\"]",
     "\"__t\":{\"toString\":0}", "\"__t\":{}"}

DataTexts ==
    {"", "\"data\":null", "\"data\":\"hello\"", "\"data\":5", "\"data\":true",
     "\"data\":\"AQID\"", "\"data\":\"2024-01-15T10:30:00.000Z\"", "\"data\":\"(\"",
     "\"data\":{\"a\":1}", "\"data\":[]", "\"data\":{\"toString\":1}"}

MetaTexts ==
    {"", "\"meta\":null", "\"meta\":{\"flags\":\"gi\"}", "\"meta\":{\"flags\":\"zz\"}",
     "\"meta\":{\"type\":\"text/plain\",\"name\":\"f.txt\",\"lastModified\":5,\"size\":3}",
     "\"meta\":{\"type\":{\"toString\":1},\"name\":null}"}

\* object texts whose version is not the current one
OtherVersionTexts ==
    {ObjectText(<<v, t, d>>) :
        v \in VersionTexts, t \in {"", "\"__t\":\"string\"", "\"__t\":\"bogus\""},
        d \in {"", "\"data\":\"hello\""}}

\* object texts of the current version
CurrentVersionEnvelopes ==
    {ObjectText(<<"\"__v\":1", t, d, m>>) : t \in TagTexts, d \in DataTexts, m \in MetaTexts}
    \cup {ObjectText(<<t, d, v>>) :
            v \in CurrentVersionTexts, t \in TagTexts, d \in {"", "\"data\":\"hello\""}}
    \cup {" {\n\t\"__v\" : 1 ,\r\"__t\" : \"number\" , \"data\" : -12.50e1 } ",
          "{\"__v\":1,\"__t\":\"string\",\"data\":\"a\\\"b\\\\c\\n\\u0041\\/\"}",
          "{\"__v\":1,\"__t\":\"array\",\"data\":[1,[true,null],{\"k\":\"v\"}]}",
          "{\"extra\":0,\"__v\":1,\"__t\":\"boolean\",\"data\":false}"}

\* JSON texts that are no object
OtherJSONTexts ==
    {"null", " null ", "5", "-0", "1.5e3", "true", "false", "\"str\"", "\"\"", "[]",
     "[1,2]", "{}", "[{\"__v\":1,\"__t\":\"null\"}]", "\"{\\\"__v\\\":1}\""}

SampleText == "{\"__v\":1,\"__t\":\"string\",\"data\":\"hi\"}"

\* texts that are not JSON: the proper prefixes of a sample and texts that
\* break the grammar in one place
MalformedTexts ==
    {Slice(SampleText, 1, n) : n \in 0..(Len(SampleText) - 1)}
    \cup {"invalid json", "{malformed", "undefined", "NaN", "Infinity", "{'__v':1}",
          "{\"__v\":1,}", "[1,]", "01", "+1", ".5", "1.", "1e", "-", "\"\\x\"",
          "\"a\nb\"", "{\"__v\":1} x", "{\"__v\" 1}", "{__v:1}", "nul", "tru", "[1 2]",
          "{\"__v\":1,\"__t\":\"string\",\"data\":\"hi\"}}", "\"\\u12\"", "NULL", "//"}

\* 'x'.repeat(n)
RECURSIVE Repeat(_, _)
Repeat(s, n) ==
    IF n <= 0 THEN ""
    ELSE IF n % 2 = 1 THEN s \o Repeat(s, n - 1)
    ELSE With(Repeat(s, n \div 2), LAMBDA half : half \o half)

\* the keys validateKey is called with: strings around both limits, and
\* values that are no string
KeyValues ==
    {Str(k) : k \in {"", "x", "valid-key", "key with spaces", "key:with:colons",
                     "key/with/slashes", "123", "undefined"}}
    \cup {Str(Repeat("x", n)) :
            n \in {MaxKeyLength - 1, MaxKeyLength, MaxKeyLength + 1, MaxKeyLength + 2,
                   2 * MaxKeyLength}}
    \cup {Num(123), Num(0), NaN, Null, Undefined, Bool(TRUE), Bool(FALSE),
          ObjectOf(<<>>, <<>>), ArrayOf(<<>>), ArrayOf(<<Str("k")>>), FunctionValue,
          SymbolValue, BigIntValue, DateOf(0, 0), InstanceOf("String")}

\* Date.now() at the time of a decode
Clock == {Decimal(FALSE, 17, 11), Decimal(FALSE, 18, 11)}

-----------------------------------------------------------------------------
(* The calls *)

Rejected(error) == [kind |-> "rejected", val |-> Undefined, error |-> error]

Resolved(value) == [kind |-> "resolved", val |-> value, error |-> NoError]

NoReader == [state |-> "empty", result |-> ""]

Pending == [k |-> "none", env |-> NoEnvelope, error |-> NoError]

\* serialize(value) up to its await: the classifier's check, then
\* createEnvelope up to its own first suspension
Serialize(h, value) ==
    /\ pc = "idle"
    /\ snapshot' = h
    /\ UNCHANGED <<calls, readers>>
    /\ op' = "serialize"
    /\ heap' = h
    /\ arg' = value
    /\ decoded' = decoded
    /\ \E checked \in {isSerializable(h, value)} :
        IF checked = "RangeError" THEN
            /\ outcome' = Rejected(NativeError("RangeError", "Maximum call stack size exceeded"))
            /\ pc' = "done"
            /\ UNCHANGED <<reader, envelope>>
        ELSE IF checked = "false" THEN
            /\ outcome' = Rejected(invalidValue(getTypeName(h, value)))
            /\ pc' = "done"
            /\ UNCHANGED <<reader, envelope>>
        ELSE \E started \in {createEnvelope(h, value)} :
            /\ envelope' = started
            /\ reader' = IF started.k = "reading" THEN [state |-> "loading", result |-> ""]
                         ELSE reader
            /\ pc' = IF started.k = "reading" THEN "awaitReader" ELSE "awaitEnvelope"
            /\ outcome' = outcome

\* the reader's loadend event: blobToBase64 settles, and serializeBlob or
\* serializeFile builds the envelope
ReaderLoadEnd ==
    /\ pc = "awaitReader"
    /\ UNCHANGED <<snapshot, calls, readers>>
    /\ \E result \in {readAsDataURL(arg)} : \E base64 \in {blobToBase64(result)} :
        /\ reader' = [state |-> "done", result |-> result]
        /\ envelope' =
            IF ~base64.ok THEN Failed(base64.error)
            ELSE IF arg.t = "File" THEN Settled(serializeFile(arg, base64.s))
            ELSE Settled(serializeBlob(arg, base64.s))
    /\ pc' = "awaitEnvelope"
    /\ UNCHANGED <<op, heap, arg, outcome, decoded>>

\* serialize after its await: JSON.stringify(envelope), or the rejection
\* of createEnvelope thrown again
SerializeResume ==
    /\ pc = "awaitEnvelope"
    /\ UNCHANGED <<snapshot, calls, readers>>
    /\ outcome' =
        IF envelope.k = "rejected" THEN Rejected(envelope.error)
        ELSE With(JSONStringify(heap, envelope.env), LAMBDA json :
            IF json.k = "TypeError"
            THEN Rejected(NativeError("TypeError", "Converting circular structure to JSON"))
            ELSE Resolved(Str(json.s)))
    /\ pc' = "done"
    /\ UNCHANGED <<op, heap, arg, reader, envelope, decoded>>

\* the caller hands the text serialize resolved to to deserialize
RoundTrip ==
    /\ pc = "done"
    /\ UNCHANGED <<snapshot, calls, readers>>
    /\ op = "serialize"
    /\ outcome.kind = "resolved"
    /\ \E now \in Clock : decoded' = deserialize(outcome.val.s, now)
    /\ pc' = "decoded"
    /\ UNCHANGED <<op, heap, arg, reader, envelope, outcome>>

\* deserialize(json) on a text of the caller
Deserialize(json) ==
    /\ pc = "idle"
    /\ UNCHANGED <<snapshot, calls, readers>>
    /\ op' = "deserialize"
    /\ arg' = Str(json)
    /\ \E now \in Clock : outcome' = deserialize(json, now)
    /\ pc' = "done"
    /\ UNCHANGED <<heap, reader, envelope, decoded>>

\* validateKey(key) on a key of the caller
ValidateKey(key) ==
    /\ pc = "idle"
    /\ UNCHANGED <<snapshot, calls, readers>>
    /\ op' = "validateKey"
    /\ arg' = key
    /\ outcome' = validateKey(key)
    /\ pc' = "done"
    /\ UNCHANGED <<heap, reader, envelope, decoded>>

\* isSerializable(value) on a value of the caller: true, false, or the
\* RangeError of a call stack that overflows
IsSerializable(h, value) ==
    /\ pc = "idle"
    /\ UNCHANGED <<snapshot, calls, readers>>
    /\ op' = "isSerializable"
    /\ heap' = h
    /\ arg' = value
    /\ \E r \in {isSerializable(h, value)} :
        outcome' = IF r = "RangeError"
                   THEN Threw(NativeError("RangeError", "Maximum call stack size exceeded"))
                   ELSE Returned(Bool(r = "true"))
    /\ pc' = "done"
    /\ UNCHANGED <<reader, envelope, decoded>>

\* the arguments of a call that takes more than one
Arguments(error, context) == [t |-> "arguments", error |-> error, context |-> context]

\* StorageError.fromNativeError(error, context)
FromNativeError(error, context) ==
    /\ pc = "idle"
    /\ UNCHANGED <<snapshot, calls, readers>>
    /\ op' = "fromNativeError"
    /\ arg' = Arguments(error, context)
    /\ outcome' = Returned(fromNativeError(error, context))
    /\ pc' = "done"
    /\ UNCHANGED <<heap, reader, envelope, decoded>>

\* a call that has not been made yet
IdleCall ==
    [pc |-> "idle", op |-> "none", heap |-> <<>>, arg |-> Undefined, now |-> Num(0),
     reader |-> 0, envelope |-> Pending, outcome |-> NoOutcome]

\* the variables of the single call
single == <<pc, op, heap, arg, reader, envelope, outcome, decoded, snapshot>>

\* one FileReader kept for every call
SharedFileReader(rs) == 1

\* new FileReader() in blobToBase64: an object no earlier call has
NewFileReader(rs) == Len(rs) + 1

\* reader.onloadend = ...; reader.readAsDataURL(blob) by call i
StartRead(rs, r, blob, i) ==
    IF r > Len(rs)
    THEN Append(rs, [state |-> "loading", blob |-> blob, handler |-> i])
    ELSE [rs EXCEPT ![r] = [state |-> "loading", blob |-> blob, handler |-> i]]

\* call i: serialize(value) up to its await
CallSerialize(i, h, value) ==
    /\ calls[i].pc = "idle"
    /\ \E checked \in {isSerializable(h, value)} :
        IF checked = "RangeError" THEN
            /\ calls' = [calls EXCEPT ![i] =
                    [@ EXCEPT !.pc = "done", !.op = "serialize", !.heap = h, !.arg = value,
                              !.outcome = Rejected(NativeError("RangeError",
                                              "Maximum call stack size exceeded"))]]
            /\ readers' = readers
        ELSE IF checked = "false" THEN
            /\ calls' = [calls EXCEPT ![i] =
                    [@ EXCEPT !.pc = "done", !.op = "serialize", !.heap = h, !.arg = value,
                              !.outcome = Rejected(invalidValue(getTypeName(h, value)))]]
            /\ readers' = readers
        ELSE \E started \in {createEnvelope(h, value)} : \E r \in {NewFileReader(readers)} :
            /\ calls' = [calls EXCEPT ![i] =
                    [@ EXCEPT !.pc = IF started.k = "reading" THEN "awaitReader"
                                     ELSE "awaitEnvelope",
                              !.op = "serialize", !.heap = h, !.arg = value,
                              !.reader = IF started.k = "reading" THEN r ELSE 0,
                              !.envelope = started]]
            /\ readers' = IF started.k = "reading" THEN StartRead(readers, r, value, i)
                          ELSE readers
    /\ UNCHANGED single

\* the loadend event of reader r: the handler it holds settles blobToBase64
\* of the call that set it, and that call builds its envelope
CallLoadEnd(r) ==
    /\ r <= Len(readers)
    /\ readers[r].state = "loading"
    /\ calls[readers[r].handler].pc = "awaitReader"
    /\ \E c \in {readers[r].handler} : \E base64 \in {blobToBase64(readAsDataURL(readers[r].blob))} :
        calls' = [calls EXCEPT ![c] =
            [@ EXCEPT !.pc = "awaitEnvelope",
                      !.envelope =
                          IF ~base64.ok THEN Failed(base64.error)
                          ELSE IF calls[c].arg.t = "File"
                          THEN Settled(serializeFile(calls[c].arg, base64.s))
                          ELSE Settled(serializeBlob(calls[c].arg, base64.s))]]
    /\ readers' = [readers EXCEPT ![r].state = "done"]
    /\ UNCHANGED single

\* call i: serialize after its await
CallResume(i) ==
    /\ calls[i].pc = "awaitEnvelope"
    /\ calls' = [calls EXCEPT ![i] =
            [@ EXCEPT !.pc = "done",
                      !.outcome =
                          IF calls[i].envelope.k = "rejected"
                          THEN Rejected(calls[i].envelope.error)
                          ELSE With(JSONStringify(calls[i].heap, calls[i].envelope.env),
                                    LAMBDA json :
                              IF json.k = "TypeError"
                              THEN Rejected(NativeError("TypeError",
                                                "Converting circular structure to JSON"))
                              ELSE Resolved(Str(json.s)))]]
    /\ UNCHANGED <<readers, single>>

\* call i: deserialize(json), which runs to its end without a suspension
CallDeserialize(i, json, now) ==
    /\ calls[i].pc = "idle"
    /\ calls' = [calls EXCEPT ![i] =
            [@ EXCEPT !.pc = "done", !.op = "deserialize", !.arg = Str(json), !.now = now,
                      !.outcome = deserialize(json, now)]]
    /\ UNCHANGED <<readers, single>>

\* getTypeName(value) on a value of the caller
GetTypeName(h, value) ==
    /\ pc = "idle"
    /\ UNCHANGED <<snapshot, calls, readers>>
    /\ op' = "getTypeName"
    /\ heap' = h
    /\ arg' = value
    /\ outcome' = Returned(Str(getTypeName(h, value)))
    /\ pc' = "done"
    /\ UNCHANGED <<reader, envelope, decoded>>

\* what an array or record holds
ItemsOf(o) == IF o.t = "Array" THEN o.items ELSE IF o.t = "Object" THEN o.vals ELSE <<>>

\* the object o after the statement m of the caller
MutatedObject(o, m) ==
    IF m.kind = "clear" THEN
        (IF o.t = "Array" THEN [o EXCEPT !.items = <<>>]
         ELSE [o EXCEPT !.keys = <<>>, !.vals = <<>>])
    ELSE IF m.kind = "set" /\ Len(ItemsOf(o)) > 0 THEN
        (IF o.t = "Array" THEN [o EXCEPT !.items[1] = m.val]
         ELSE [o EXCEPT !.vals[1] = m.val])
    ELSE IF o.t = "Array" THEN [o EXCEPT !.items = Append(@, m.val)]
    ELSE [o EXCEPT !.keys = Append(@, "z"), !.vals = Append(@, m.val)]

\* the caller, running on after serialize(value) returned its promise and
\* before the promise settles, changes the array or record it passed
CallerMutates(m) ==
    /\ pc = "awaitEnvelope"
    /\ op = "serialize"
    /\ arg.t = "ref"
    /\ heap = snapshot
    /\ heap' = [heap EXCEPT ![arg.id] = MutatedObject(@, m)]
    /\ heap' # heap
    /\ UNCHANGED <<pc, op, arg, reader, envelope, outcome, decoded, snapshot, calls, readers>>

-----------------------------------------------------------------------------

Init ==
    /\ pc = "idle"
    /\ op = "none"
    /\ heap = <<>>
    /\ arg = Undefined
    /\ reader = NoReader
    /\ envelope = Pending
    /\ outcome = NoOutcome
    /\ decoded = NoOutcome
    /\ snapshot = <<>>
    /\ calls = [i \in 1..MaxCalls |-> IdleCall]
    /\ readers = <<>>

\* every operation starts from the idle position (the first guard of its action);
\* in front of the large input sets the guard is repeated, so that their
\* elements are enumerated in the idle state only
Next ==
    \/ \E v \in PrimitiveValues : Serialize(<<>>, v)
    \/ \E v \in DateValues : Serialize(<<>>, v)
    \/ \E v \in RegExpValues : Serialize(<<>>, v)
    \/ pc = "idle" /\ \E v \in BlobValues : Serialize(<<>>, v)
    \/ pc = "idle" /\ \E v \in FileValues : Serialize(<<>>, v)
    \/ pc = "idle" /\ \E v \in ArrayBufferValues : Serialize(<<>>, v)
    \/ pc = "idle" /\ \E v \in WellFormedViews : Serialize(<<>>, v)
    \/ \E v \in UnsupportedValues : Serialize(<<>>, v)
    \/ pc = "idle" /\ \E h \in Heaps : Serialize(h, Ref(1))
    \/ \E h \in SpecialHeaps : Serialize(h, Ref(1))
    \/ ReaderLoadEnd
    \/ SerializeResume
    \/ RoundTrip
    \/ \E json \in MalformedTexts : Deserialize(json)
    \/ \E json \in OtherJSONTexts : Deserialize(json)
    \/ \E json \in OtherVersionTexts : Deserialize(json)
    \/ \E json \in CurrentVersionEnvelopes : Deserialize(json)
    \/ \E key \in KeyValues : ValidateKey(key)
    \/ \E v \in ClassifierValues : IsSerializable(<<>>, v)
    \/ pc = "idle" /\ \E h \in Heaps \cup SpecialHeaps : IsSerializable(h, Ref(1))
    \/ \E error \in NativeErrors, context \in Contexts : FromNativeError(error, context)
    \/ \E v \in ClassifierValues : GetTypeName(<<>>, v)
    \/ \E h \in SpecialHeaps : GetTypeName(h, Ref(1))

Spec == Init /\ [][Next]_vars

\* calls made and resumed in any order while others are in flight
NextConcurrent ==
    \/ \E i \in 1..MaxCalls : \E v \in ConcurrentValues : CallSerialize(i, <<>>, v)
    \/ \E i \in 1..MaxCalls : \E h \in ConcurrentHeaps : CallSerialize(i, h, Ref(1))
    \/ \E r \in 1..MaxCalls : CallLoadEnd(r)
    \/ \E i \in 1..MaxCalls : CallResume(i)
    \/ \E i \in 1..MaxCalls : \E json \in ConcurrentTexts : \E now \in Clock :
            CallDeserialize(i, json, now)

SpecConcurrent == Init /\ [][NextConcurrent]_vars

\* serialize of an array or record that the caller goes on changing
NextMutation ==
    \/ \E h \in Heaps \cup SpecialHeaps : Serialize(h, Ref(1))
    \/ \E m \in Mutations : CallerMutates(m)
    \/ SerializeResume
    \/ RoundTrip

SpecMutation == Init /\ [][NextMutation]_vars

-----------------------------------------------------------------------------
(* What the claims speak of *)

\* serialize was called with a value of one of the kinds
Encoding(kinds) == op = "serialize" /\ arg.t \in kinds

\* createEnvelope has settled
EnvelopeSettled == pc \in {"awaitEnvelope", "done", "decoded"}

\* serialize has settled
SerializeSettled == op = "serialize" /\ pc \in {"done", "decoded"}

\* the text serialize resolved to has been given to deserialize
RoundTripDone == op = "serialize" /\ pc = "decoded"

\* deserialize was called with a text of the caller and is over
Decoded == op = "deserialize" /\ pc = "done"

ReturnedNull(o) == o.kind = "returned" /\ o.val = Null

ThrewCorruption(o) ==
    o.kind = "threw" /\ o.error.name = "StorageError" /\ o.error.code = "CORRUPTION"

\* a === b, or both are NaN
Identical(a, b) == StrictEquals(a, b) \/ SameValue(a, b)

ByteAt(bytes, i) == IF i <= Len(bytes) THEN bytes[i] ELSE 0

\* the three bytes of group g (from 0) as one number of 24 bits
Quantum(bytes, g) ==
    65536 * ByteAt(bytes, 3 * g + 1) + 256 * ByteAt(bytes, 3 * g + 2) + ByteAt(bytes, 3 * g + 3)

\* text is the base64 of RFC 4648 for bytes: four symbols for every group of
\* three bytes, "=" where the last group has no byte
IsBase64Of(text, bytes) ==
    /\ Len(text) = 4 * ((Len(bytes) + 2) \div 3)
    /\ \A g \in 0..(((Len(bytes) + 2) \div 3) - 1) :
        /\ Ch(text, 4 * g + 1) = Ch(Base64Alphabet, (Quantum(bytes, g) \div 262144) + 1)
        /\ Ch(text, 4 * g + 2) = Ch(Base64Alphabet, ((Quantum(bytes, g) \div 4096) % 64) + 1)
        /\ Ch(text, 4 * g + 3) =
            IF 3 * g + 2 <= Len(bytes)
            THEN Ch(Base64Alphabet, ((Quantum(bytes, g) \div 64) % 64) + 1) ELSE "="
        /\ Ch(text, 4 * g + 4) =
            IF 3 * g + 3 <= Len(bytes)
            THEN Ch(Base64Alphabet, (Quantum(bytes, g) % 64) + 1) ELSE "="

\* text is written in the 64 symbols and "="
InBase64Alphabet(text) ==
    \A i \in 1..Len(text) : Ch(text, i) = "=" \/ IndexOf(Base64Alphabet, Ch(text, i)) > 0

\* the envelope has the tag, and its data is the base64 of the bytes
EnvelopeCarries(tag, bytes) ==
    /\ envelope.k = "resolved"
    /\ Get(envelope.env, "__v") = Num(1)
    /\ Get(envelope.env, "__t") = Str(tag)
    /\ Get(envelope.env, "data").t = "string"
    /\ IsBase64Of(Get(envelope.env, "data").s, bytes)
    /\ InBase64Alphabet(Get(envelope.env, "data").s)

EnvelopeMeta(key) == Get(Get(envelope.env, "meta"), key)

-----------------------------------------------------------------------------
(* C1 *)

\* C1: a top-level null, undefined, boolean, string or number (NaN and the
\* infinities included) is encoded to a text, and decoding that text returns
\* a value identical to it.
C1_PrimitiveRoundTrip ==
    Encoding(Primitives) =>
        /\ SerializeSettled => outcome.kind = "resolved"
        /\ RoundTripDone => decoded.kind = "returned" /\ Identical(decoded.val, arg)

-----------------------------------------------------------------------------
(* C2 *)

\* C2: an ArrayBuffer of any length and bytes is encoded with tag arraybuffer,
\* data in the base64 alphabet with "=" padding and of length 4 * ceil(n / 3),
\* the one base64 text of its bytes, and meta.byteLength = n; decoding gives
\* an ArrayBuffer of the same length with the same byte at every index.
C2_BufferRoundTrip ==
    Encoding({"ArrayBuffer"}) =>
        /\ EnvelopeSettled =>
            /\ EnvelopeCarries("arraybuffer", arg.bytes)
            /\ EnvelopeMeta("byteLength") = Num(Len(arg.bytes))
        /\ SerializeSettled => outcome.kind = "resolved"
        /\ RoundTripDone =>
            /\ decoded.kind = "returned"
            /\ decoded.val.t = "ArrayBuffer"
            /\ Len(decoded.val.bytes) = Len(arg.bytes)
            /\ \A i \in 1..Len(arg.bytes) : decoded.val.bytes[i] = arg.bytes[i]

\* a buffer that needs padding and holds 0x00 and 0xFF has made the round trip
C2_Witness ==
    /\ RoundTripDone
    /\ arg = ArrayBufferOf(<<0, 255>>)
    /\ Get(envelope.env, "data") = Str("AP8=")
    /\ decoded.val = arg

-----------------------------------------------------------------------------
(* C3 *)

\* C3: every Blob or File, the empty one included, is encoded to an envelope
\* whose data is the base64 of all its bytes and whose meta.size is their
\* count; decoding gives a Blob, or a File for a File, with the same bytes
\* and mime type and, for a File, the same name and last-modified time.
C3_BlobFileRoundTrip ==
    Encoding({"Blob", "File"}) =>
        /\ EnvelopeSettled =>
            /\ EnvelopeCarries(IF arg.t = "File" THEN "file" ELSE "blob", arg.bytes)
            /\ EnvelopeMeta("size") = Num(Len(arg.bytes))
        /\ SerializeSettled => outcome.kind = "resolved"
        /\ RoundTripDone =>
            /\ decoded.kind = "returned"
            /\ decoded.val.t = arg.t
            /\ decoded.val.bytes = arg.bytes
            /\ decoded.val.type = arg.type
            /\ arg.t = "File" =>
                /\ decoded.val.name = arg.name
                /\ decoded.val.lastModified = arg.lastModified

-----------------------------------------------------------------------------
(* C4 *)

\* C4: every Date is encoded, and decoding gives a Date of the same instant;
\* every RegExp comes back as a RegExp with the same source and flags.
C4_DateRegExpRoundTrip ==
    Encoding({"Date", "RegExp"}) =>
        /\ SerializeSettled => outcome.kind = "resolved"
        /\ RoundTripDone =>
            /\ decoded.kind = "returned"
            /\ decoded.val.t = arg.t
            /\ arg.t = "Date" =>
                /\ decoded.val.valid
                /\ decoded.val.day = arg.day
                /\ decoded.val.msOfDay = arg.msOfDay
            /\ arg.t = "RegExp" =>
                /\ decoded.val.source = arg.source
                /\ decoded.val.flags = arg.flags

-----------------------------------------------------------------------------
(* C5 *)

\* the bytes of the buffer that the view covers
ViewRange(view) == [i \in 1..view.byteLength |-> view.buffer[view.byteOffset + i]]

\* C5: a view is encoded with tag arraybuffer, the bytes byteOffset up to
\* byteOffset + byteLength of its buffer and no other, and meta.byteLength =
\* its byteLength; decoding gives an ArrayBuffer of those bytes, not a view.
C5_ViewEncoding ==
    Encoding({"view"}) =>
        /\ EnvelopeSettled =>
            /\ EnvelopeCarries("arraybuffer", ViewRange(arg))
            /\ EnvelopeMeta("byteLength") = Num(arg.byteLength)
        /\ SerializeSettled => outcome.kind = "resolved"
        /\ RoundTripDone =>
            /\ decoded.kind = "returned"
            /\ decoded.val.t = "ArrayBuffer"
            /\ decoded.val.bytes = ViewRange(arg)

\* a view that leaves out bytes before and after it has made the round trip
C5_Witness ==
    /\ RoundTripDone
    /\ arg.t = "view"
    /\ arg.ctor = "Int8Array"
    /\ arg.buffer = <<0, 255, 104>>
    /\ arg.byteOffset = 1
    /\ arg.byteLength = 1
    /\ decoded.val = ArrayBufferOf(<<255>>)

-----------------------------------------------------------------------------
(* C6 *)

\* C6: for a text that is not JSON, deserialize returns null and does not
\* throw.
C6_MalformedTextGivesNull ==
    (Decoded /\ (arg.s \in MalformedTexts \/ ~JSONParse(arg.s).ok)) => ReturnedNull(outcome)

\* "{malformed" has been decoded
C6_Witness == Decoded /\ arg = Str("{malformed") /\ ReturnedNull(outcome)

-----------------------------------------------------------------------------
(* The texts given to deserialize, as JSON.parse reads them *)

ParsedText == JSONParse(arg.s)

\* envelope[key] of the parsed value, undefined on a value without the key
Field(key) == Get(ParsedText.val, key)

\* meta?.key
MetaField(key) == Get(Field("meta"), key)

\* String(x) exists: x is no record with a key "toString" of its own
Convertible(x) == ToStringJS(x).ok

TwelveTags ==
    {"string", "number", "boolean", "null", "undefined", "object", "array", "date",
     "regexp", "blob", "file", "arraybuffer"}

HasVersionOne == ParsedText.val # Null /\ StrictEquals(Field("__v"), Num(1))

HasKnownTag == Field("__t").t = "string" /\ Field("__t").s \in TwelveTags

HasTag(tags) == HasVersionOne /\ Field("__t").t = "string" /\ Field("__t").s \in tags

\* the text of an argument: the default when it is undefined
TextOf(x, default) == IF x.t = "undefined" THEN default ELSE ToStringJS(x).s

VersionMessage == "Unsupported envelope format version: " \o ToStringJS(Field("__v")).s

TagMessage == "Unknown type in envelope: " \o ToStringJS(Field("__t")).s

\* the version or the tag is refused with a message that names it
VersionOrTagRefused ==
    /\ ParsedText.val # Null
    /\ \/ ~HasVersionOne /\ Convertible(Field("__v"))
       \/ HasVersionOne /\ ~HasKnownTag /\ Convertible(Field("__t"))

\* the reconstruction raises an exception that is no StorageError: the text
\* is the JSON null, the refused version or tag has no string form, data is
\* no base64 text, a field of meta cannot be converted, or the pattern and
\* flags make no regular expression
ReconstructionFails ==
    \/ ParsedText.val = Null
    \/ ParsedText.val # Null /\ ~HasVersionOne /\ ~Convertible(Field("__v"))
    \/ HasVersionOne /\ ~HasKnownTag /\ ~Convertible(Field("__t"))
    \/ /\ HasTag({"blob", "file", "arraybuffer"})
       /\ ~(Convertible(Field("data")) /\ atob(ToStringJS(Field("data")).s).ok)
    \/ /\ HasTag({"blob", "file"})
       /\ Truthy(MetaField("type"))
       /\ ~Convertible(MetaField("type"))
    \/ /\ HasTag({"file"})
       /\ ~(Convertible(MetaField("name")) /\ ToNumber(MetaField("lastModified")).ok)
    \/ /\ HasTag({"regexp"})
       /\ ~(/\ Convertible(Field("data"))
            /\ Convertible(MetaField("flags"))
            /\ RegExpCreate(TextOf(Field("data"), ""), TextOf(MetaField("flags"), "")).ok)
    \/ HasTag({"date"}) /\ ~Convertible(Field("data"))

\* null is the value the tag stands for
NullReconstructed ==
    \/ HasTag({"null"})
    \/ HasTag({"string", "number", "boolean", "object", "array"}) /\ Field("data") = Null

-----------------------------------------------------------------------------
(* C7 *)

\* C7 as stated: after a successful parse deserialize returns the value of
\* the tag, null for the tag null alone, or throws a StorageError; no failure
\* after the parse gives null.
C7_OnlySyntaxFailureGivesNull ==
    (Decoded /\ ParsedText.ok) =>
        \/ outcome.kind = "threw" /\ IsStorageError(outcome.error)
        \/ outcome.kind = "returned" /\ (outcome.val = Null => HasTag({"null"}))

\* C7 as the code has it: after a successful parse deserialize throws, and
\* then a StorageError of code CORRUPTION, exactly when the version or the
\* tag is refused with a message naming it; it returns null exactly when the
\* reconstruction raises any other exception or null is the value the tag
\* stands for.
C7_NullAfterParse ==
    (Decoded /\ ParsedText.ok) =>
        /\ outcome.kind \in {"returned", "threw"}
        /\ outcome.kind = "threw" <=> VersionOrTagRefused
        /\ outcome.kind = "threw" => ThrewCorruption(outcome)
        /\ ReturnedNull(outcome) <=> (ReconstructionFails \/ NullReconstructed)

\* a text that is JSON and carries undecodable base64 has been decoded to null
C7_Witness ==
    /\ Decoded
    /\ arg = Str("{\"__v\":1,\"__t\":\"blob\",\"data\":\"hello\"}")
    /\ ParsedText.ok
    /\ ReturnedNull(outcome)

-----------------------------------------------------------------------------
(* C8 *)

\* C8 as stated: for a text that is JSON whose __v is not 1, the value that
\* is no record included, deserialize throws a StorageError of code
\* CORRUPTION.
C8_OtherVersionThrows ==
    (Decoded /\ ParsedText.ok /\ ~StrictEquals(Field("__v"), Num(1))) =>
        ThrewCorruption(outcome)

\* C8 as the code has it: for a text that is JSON whose __v is not 1,
\* deserialize throws a StorageError of code CORRUPTION whose message names
\* the version, unless the text is the JSON null or the version has no string
\* form: then it returns null.
C8_VersionCheck ==
    (Decoded /\ ParsedText.ok /\ ~StrictEquals(Field("__v"), Num(1))) =>
        IF ParsedText.val = Null \/ ~Convertible(Field("__v"))
        THEN ReturnedNull(outcome)
        ELSE ThrewCorruption(outcome) /\ outcome.error.message = VersionMessage

\* an envelope of version 2 has been refused
C8_Witness ==
    /\ Decoded
    /\ arg = Str("{\"__v\":2,\"__t\":\"string\",\"data\":\"hello\"}")
    /\ ThrewCorruption(outcome)
    /\ outcome.error.message = "Unsupported envelope format version: 2"

-----------------------------------------------------------------------------
(* C9 *)

-----------------------------------------------------------------------------
(* C10 *)

RefsOf(o) == {ItemsOf(o)[i].id : i \in {j \in 1..Len(ItemsOf(o)) : ItemsOf(o)[j].t = "ref"}}

\* the objects of the heap reached from ids in at most n steps
RECURSIVE ReachedIn(_, _, _)
ReachedIn(h, ids, n) ==
    IF n = 0 THEN ids
    ELSE ReachedIn(h, ids \cup UNION {RefsOf(h[i]) : i \in ids}, n - 1)

Reached(h, v) == IF v.t = "ref" THEN ReachedIn(h, {v.id}, Len(h)) ELSE {}

\* a function, a symbol, a Map, a Set or an instance of another class
Unsupported(v) == v.t \in {"function", "symbol", "instance"}

\* v is such a value or holds one at some depth
HoldsUnsupported(h, v) ==
    \/ Unsupported(v)
    \/ \E i \in Reached(h, v) : \E j \in 1..Len(ItemsOf(h[i])) : Unsupported(ItemsOf(h[i])[j])

Contains(text, part) ==
    \E i \in 1..(Len(text) - Len(part) + 1) : Slice(text, i, i + Len(part) - 1) = part

\* C10: serialize of a function, a symbol, a Map, a Set, an instance of
\* another class, or an array or record holding one at any depth is rejected
\* with a StorageError of code INVALID_VALUE whose message has the type name
\* of the value, and no envelope text is made.
C10_UnsupportedInputRejected ==
    (op = "serialize" /\ HoldsUnsupported(heap, arg)) =>
        /\ pc = "done"
        /\ outcome.kind = "rejected"
        /\ outcome.error.name = "StorageError"
        /\ outcome.error.code = "INVALID_VALUE"
        /\ Contains(outcome.error.message, getTypeName(heap, arg))

-----------------------------------------------------------------------------
(* C11 *)

\* validateKey was called and is over
KeyValidated == op = "validateKey" /\ pc = "done"

ThrewInvalidValue(o) ==
    o.kind = "threw" /\ o.error.name = "StorageError" /\ o.error.code = "INVALID_VALUE"

\* C11: validateKey returns exactly for a string of 1 to 1000 characters;
\* any other key makes it throw a StorageError of code INVALID_VALUE: one
\* that is no string with a message stating its typeof, else the empty one
\* with a message saying empty, else one longer than 1000 with a message
\* saying too long.  1000 characters are accepted, 1001 are not.
C11_KeyValidation ==
    KeyValidated =>
        /\ outcome.kind = "returned" <=>
            (arg.t = "string" /\ 1 <= Len(arg.s) /\ Len(arg.s) <= 1000)
        /\ outcome.kind # "returned" => ThrewInvalidValue(outcome)
        /\ arg.t # "string" =>
            Contains(outcome.error.message, "must be a string, got " \o TypeOf(arg))
        /\ arg.t = "string" /\ Len(arg.s) = 0 => Contains(outcome.error.message, "empty")
        /\ arg.t = "string" /\ Len(arg.s) > 1000 =>
            Contains(outcome.error.message, "too long")

\* a key of 1000 characters has been accepted
C11_WitnessAccepted ==
    KeyValidated /\ arg.t = "string" /\ Len(arg.s) = 1000 /\ outcome.kind = "returned"

\* a key of 1001 characters has been refused as too long
C11_Witness ==
    /\ KeyValidated
    /\ arg.t = "string"
    /\ Len(arg.s) = 1001
    /\ ThrewInvalidValue(outcome)
    /\ outcome.error.message =
        "Invalid key: Key too long (1001 characters). Maximum is 1000 characters"

-----------------------------------------------------------------------------
(* C12 *)

\* isSerializable was called and is over
Classified == op = "isSerializable" /\ pc = "done"

\* a value of no supported kind: a function, a symbol, a bigint, a Map, a
\* Set or an instance of another class
Refused(v) == v.t \in {"function", "symbol", "bigint", "instance"}

\* v is such a value, or an array or record that holds one at some depth
HoldsRefused(h, v) ==
    \/ Refused(v)
    \/ \E i \in Reached(h, v) : \E j \in 1..Len(ItemsOf(h[i])) : Refused(ItemsOf(h[i])[j])

\* an array or record of the heap is reached from itself
Cyclic(h, v) == \E i \in Reached(h, v) : i \in ReachedIn(h, RefsOf(h[i]), Len(h))

\* C12: isSerializable returns false for a function, a symbol, a Map, a Set
\* or another class instance and for an array or plain record that holds one
\* at any depth, [1, 2, <function>] and {a: 1, b: <symbol>} among them; it
\* returns true for every other value, nested at any depth.
C12_RecursiveClassification ==
    Classified =>
        /\ HoldsRefused(heap, arg) => outcome = Returned(Bool(FALSE))
        /\ ~HoldsRefused(heap, arg) /\ ~Cyclic(heap, arg) => outcome = Returned(Bool(TRUE))

\* the same on the values that do not contain themselves
C12_AcyclicClassification ==
    (Classified /\ ~Cyclic(heap, arg)) =>
        outcome = Returned(Bool(~HoldsRefused(heap, arg)))

-----------------------------------------------------------------------------
(* C13 *)

\* fromNativeError was called and is over
Mapped == op = "fromNativeError" /\ pc = "done"

\* the code the taxonomy has for the name of a native error
CodeOfName(name) ==
    CASE name = "QuotaExceededError" -> "QUOTA_EXCEEDED"
      [] name = "TimeoutError" -> "TIMEOUT"
      [] name = "VersionError" -> "VERSION_MISMATCH"
      [] OTHER -> "OPERATION_FAILED"

\* C13: fromNativeError returns, for every name of a native error, a
\* StorageError: QUOTA_EXCEEDED for QuotaExceededError, TIMEOUT for
\* TimeoutError, VERSION_MISMATCH for VersionError, and OPERATION_FAILED with
\* a message that contains the native message for every other name.  Its
\* originalError is the native error itself, its context the context
\* argument, and its code is never STORAGE_UNAVAILABLE, INVALID_VALUE or
\* CORRUPTION.
C13_NativeErrorMapping ==
    Mapped =>
        /\ outcome.kind = "returned"
        /\ outcome.val.t = "StorageError"
        /\ outcome.val.code = CodeOfName(arg.error.name)
        /\ outcome.val.code = "OPERATION_FAILED" =>
            Contains(outcome.val.message, arg.error.message)
        /\ outcome.val.originalError = arg.error
        /\ outcome.val.context = arg.context
        /\ outcome.val.code \notin {"STORAGE_UNAVAILABLE", "INVALID_VALUE", "CORRUPTION"}

\* an error of a name the mapping does not know has been mapped, with its
\* message and its context kept
C13_Witness ==
    /\ Mapped
    /\ arg.error = ErrorObject(2, "AbortError", "Unknown error")
    /\ arg.context = ObjectOf(<<"key">>, <<Str("test-key")>>)
    /\ outcome.val.code = "OPERATION_FAILED"
    /\ outcome.val.message = "Storage operation failed: Unknown error"
    /\ outcome.val.originalError.id = 2

-----------------------------------------------------------------------------
(* C14 *)

\* serialize has resolved to a text
TextResolved == SerializeSettled /\ outcome.kind = "resolved"

\* the text serialize resolved to, as JSON.parse reads it
ResolvedText == JSONParse(outcome.val.s)

\* the keys of a parsed record
KeysOf(record) ==
    IF record.t = "Object" THEN {record.keys[i] : i \in 1..Len(record.keys)} ELSE {}

ResolvedTag == Get(ResolvedText.val, "__t").s

\* the keys of meta that a tag requires
MetaKeys(tag) ==
    CASE tag = "regexp" -> {"flags"}
      [] tag = "blob" -> {"type", "size"}
      [] tag = "file" -> {"name", "type", "size", "lastModified"}
      [] tag = "arraybuffer" -> {"byteLength"}
      [] OTHER -> {}

\* C14: every text serialize resolves to is a JSON object with __v = 1, __t
\* one of the twelve tags, and data; it has no meta for the tags string,
\* number, boolean, null, undefined, object, array and date, and for the
\* others a meta with exactly the keys of the tag; data is null for the tags
\* null and undefined and a string for date, regexp, blob, file and
\* arraybuffer.
C14_EnvelopeShape ==
    TextResolved =>
        /\ ResolvedText.ok
        /\ ResolvedText.val.t = "Object"
        /\ Get(ResolvedText.val, "__v") = Num(1)
        /\ Get(ResolvedText.val, "__t").t = "string"
        /\ ResolvedTag \in TwelveTags
        /\ "data" \in KeysOf(ResolvedText.val)
        /\ KeysOf(ResolvedText.val) \subseteq {"__v", "__t", "data", "meta"}
        /\ IF ResolvedTag \in {"regexp", "blob", "file", "arraybuffer"}
           THEN KeysOf(Get(ResolvedText.val, "meta")) = MetaKeys(ResolvedTag)
           ELSE "meta" \notin KeysOf(ResolvedText.val)
        /\ ResolvedTag \in {"null", "undefined"} => Get(ResolvedText.val, "data") = Null
        /\ ResolvedTag \in {"date", "regexp", "blob", "file", "arraybuffer"} =>
            Get(ResolvedText.val, "data").t = "string"

\* the text of a File has been made, with the four keys of its meta
C14_Witness ==
    /\ TextResolved
    /\ arg = FileOf(<<104>>, "test.txt", "application/pdf", Num(1234567890))
    /\ outcome.val.s =
        "{\"__v\":1,\"__t\":\"file\",\"data\":\"aA==\",\"meta\":{\"name\":\"test.txt\",\"type\":\"application/pdf\",\"size\":1,\"lastModified\":1234567890}}"

-----------------------------------------------------------------------------
(* C15 *)

\* a value that JSON leaves out of a record and writes as null in an array
Omitted(v) == v.t \in {"undefined", "function", "symbol"}

\* the JSON form of a value as plain data: a Date is its ISO text (null when
\* invalid), a number that is not finite is null, a typed array is the record
\* of its elements, any other object without properties of its own is the
\* empty record
RECURSIVE PlainForm(_, _)
RECURSIVE PlainMembers(_, _, _, _)
PlainMembers(h, keys, vals, i) ==
    IF i > Len(keys) THEN ObjectOf(<<>>, <<>>)
    ELSE LET rest == PlainMembers(h, keys, vals, i + 1) IN
         IF Omitted(vals[i]) THEN rest
         ELSE ObjectOf(<<keys[i]>> \o rest.keys, <<PlainForm(h, vals[i])>> \o rest.vals)

PlainForm(h, v) ==
    LET o == Deref(h, v) IN
    IF v.t \in {"null", "boolean", "string"} THEN v
    ELSE IF v.t = "number" THEN
        (IF v.cls # "finite" THEN Null ELSE IF v.m = 0 THEN Num(0) ELSE v)
    ELSE IF v.t = "Date" THEN (IF v.valid THEN Str(toISOString(v).s) ELSE Null)
    ELSE IF o.t = "Array" THEN
        ArrayOf([i \in 1..Len(o.items) |->
                    IF Omitted(o.items[i]) THEN Null ELSE PlainForm(h, o.items[i])])
    ELSE IF o.t = "Object" THEN PlainMembers(h, o.keys, o.vals, 1)
    ELSE IF o.t = "view" THEN
        ObjectOf([i \in 1..Len(ViewElements(o)) |-> NatToString(i - 1)], ViewElements(o))
    ELSE ObjectOf(<<>>, <<>>)

\* serialize was called with an array or plain record that the classifier
\* accepts
EncodingContainer ==
    op = "serialize" /\ arg.t = "ref" /\ ~HoldsRefused(heap, arg) /\ ~Cyclic(heap, arg)

\* C15: an array or plain record is encoded as one envelope of tag array or
\* object whose data is the input itself, written as its JSON form without
\* any envelope inside; decoding gives the nested values back as plain data,
\* a Date as its ISO text, and not with their types.
C15_NoNestedEnvelopes ==
    EncodingContainer =>
        /\ EnvelopeSettled =>
            envelope = Settled(Envelope(IF heap[arg.id].t = "Array" THEN "array" ELSE "object",
                                        arg))
        /\ SerializeSettled =>
            /\ outcome.kind = "resolved"
            /\ ResolvedText.ok
            /\ ResolvedText.val =
                Envelope(IF heap[arg.id].t = "Array" THEN "array" ELSE "object",
                         PlainForm(heap, arg))
        /\ RoundTripDone =>
            /\ decoded.kind = "returned"
            /\ decoded.val = PlainForm(heap, arg)

\* an array of a Date and a regular expression has come back as an array of
\* a string and an empty record
C15_Witness ==
    /\ RoundTripDone
    /\ heap = <<ArrayOf(<<DateOf(19737, 37800000), RegExpOf("a+", "g")>>)>>
    /\ arg = Ref(1)
    /\ outcome.val.s =
        "{\"__v\":1,\"__t\":\"array\",\"data\":[\"2024-01-15T10:30:00.000Z\",{}]}"
    /\ decoded.val = ArrayOf(<<Str("2024-01-15T10:30:00.000Z"), ObjectOf(<<>>, <<>>)>>)

-----------------------------------------------------------------------------
(* C16 *)

\* the envelope createEnvelope settles with when the call runs alone
EnvelopeAlone(h, value) ==
    LET started == createEnvelope(h, value)
        base64 == blobToBase64(readAsDataURL(value))
    IN  IF started.k # "reading" THEN started
        ELSE IF ~base64.ok THEN Failed(base64.error)
        ELSE IF value.t = "File" THEN Settled(serializeFile(value, base64.s))
        ELSE Settled(serializeBlob(value, base64.s))

\* how serialize(value) ends when the call runs alone
SerializeAlone(h, value) ==
    LET checked == isSerializable(h, value)
        made == EnvelopeAlone(h, value)
        json == JSONStringify(h, made.env)
    IN  IF checked = "RangeError"
        THEN Rejected(NativeError("RangeError", "Maximum call stack size exceeded"))
        ELSE IF checked = "false" THEN Rejected(invalidValue(getTypeName(h, value)))
        ELSE IF made.k = "rejected" THEN Rejected(made.error)
        ELSE IF json.k = "TypeError"
        THEN Rejected(NativeError("TypeError", "Converting circular structure to JSON"))
        ELSE Resolved(Str(json.s))

\* C16: of the calls in flight at the same time, suspended at their reads
\* and resumed in any order, each one waits for a reader of its own that
\* reads its own Blob, builds the envelope it builds when run alone, and ends
\* as it ends when run alone.
C16_CallsIndependent ==
    \A i \in 1..MaxCalls :
        /\ calls[i].pc = "awaitReader" =>
            /\ calls[i].reader \in 1..Len(readers)
            /\ readers[calls[i].reader] =
                [state |-> "loading", blob |-> calls[i].arg, handler |-> i]
            /\ \A j \in 1..MaxCalls :
                (j # i /\ calls[j].pc = "awaitReader") => calls[j].reader # calls[i].reader
        /\ calls[i].pc = "awaitEnvelope" =>
            calls[i].envelope = EnvelopeAlone(calls[i].heap, calls[i].arg)
        /\ (calls[i].pc = "done" /\ calls[i].op = "serialize") =>
            calls[i].outcome = SerializeAlone(calls[i].heap, calls[i].arg)
        /\ (calls[i].pc = "done" /\ calls[i].op = "deserialize") =>
            calls[i].outcome = deserialize(calls[i].arg.s, calls[i].now)

\* the call that began its read second has resolved while the call that
\* began first is still suspended at its read
C16_Witness ==
    /\ calls[1].pc = "awaitReader"
    /\ calls[1].reader = 1
    /\ calls[1].arg = BlobOf(<<104>>, "text/plain")
    /\ calls[2].pc = "done"
    /\ calls[2].reader = 2
    /\ calls[2].arg = FileOf(<<0, 255>>, "b.bin", "", Num(5))
    /\ calls[2].outcome.kind = "resolved"

-----------------------------------------------------------------------------
(* C17 *)

\* the codes of the taxonomy that the codec leaves to the storage backends
BackendCodes ==
    {"TIMEOUT", "QUOTA_EXCEEDED", "STORAGE_UNAVAILABLE", "OPERATION_FAILED", "VERSION_MISMATCH"}

\* the errors a call of serialize, deserialize or validateKey holds
CodecErrors ==
    IF op \in {"serialize", "deserialize", "validateKey"}
    THEN {outcome.error, decoded.error, envelope.error}
    ELSE {}

\* C17: a StorageError that serialize rejects with or validateKey throws has
\* the code INVALID_VALUE, one that deserialize throws has the code
\* CORRUPTION, and no error of these calls has the code TIMEOUT,
\* QUOTA_EXCEEDED, STORAGE_UNAVAILABLE, OPERATION_FAILED or VERSION_MISMATCH.
C17_CodecErrorCodes ==
    /\ (op \in {"serialize", "validateKey"} /\ IsStorageError(outcome.error)) =>
        outcome.error.code = "INVALID_VALUE"
    /\ (op = "serialize" /\ IsStorageError(envelope.error)) =>
        envelope.error.code = "INVALID_VALUE"
    /\ (op = "deserialize" /\ IsStorageError(outcome.error)) =>
        outcome.error.code = "CORRUPTION"
    /\ (op = "serialize" /\ IsStorageError(decoded.error)) => decoded.error.code = "CORRUPTION"
    /\ \A e \in CodecErrors : e.code \notin BackendCodes

\* serialize has rejected a Map with a StorageError
C17_Witness ==
    /\ SerializeSettled
    /\ arg = InstanceOf("Map")
    /\ outcome.kind = "rejected"
    /\ IsStorageError(outcome.error)
    /\ outcome.error.code = "INVALID_VALUE"

-----------------------------------------------------------------------------
(* C18 *)

\* the one tag of a value the classifier accepts
TagOf(h, v) ==
    CASE v.t \in {"null", "undefined", "string", "number", "boolean"} -> v.t
      [] v.t = "Date" -> "date"
      [] v.t = "RegExp" -> "regexp"
      [] v.t = "File" -> "file"
      [] v.t = "Blob" -> "blob"
      [] v.t \in {"ArrayBuffer", "view"} -> "arraybuffer"
      [] OTHER -> IF Deref(h, v).t = "Array" THEN "array" ELSE "object"

\* serialize was called with a value the classifier accepts
EncodingAccepted == op = "serialize" /\ ~HoldsRefused(heap, arg) /\ ~Cyclic(heap, arg)

\* C18: every File is encoded with the tag file and the four keys of its
\* meta, never with the tag blob, and its type name is "File"; every value
\* the classifier accepts is encoded with the one tag of its kind, the
\* primitives before any object, buffers and views before arrays, arrays
\* before plain records.
C18_DispatchOrder ==
    /\ (EncodingAccepted /\ SerializeSettled) =>
        /\ outcome.kind = "resolved"
        /\ ResolvedTag = TagOf(heap, arg)
        /\ arg.t = "File" => KeysOf(Get(ResolvedText.val, "meta")) = MetaKeys("file")
    /\ (op = "getTypeName" /\ pc = "done" /\ arg.t = "File") => outcome.val = Str("File")

\* the same for the calls that resolve: the tag of the text is the one tag of
\* the kind of the value
C18_TagOfResolved ==
    /\ TextResolved =>
        /\ ResolvedTag = TagOf(heap, arg)
        /\ arg.t = "File" => KeysOf(Get(ResolvedText.val, "meta")) = MetaKeys("file")
    /\ (op = "getTypeName" /\ pc = "done" /\ arg.t = "File") => outcome.val = Str("File")

-----------------------------------------------------------------------------
(* C19 *)

\* what the classifier says of the value serialize was called with
ClassifierSays == isSerializable(heap, arg)

RejectedInvalidValue ==
    /\ outcome.kind = "rejected"
    /\ outcome.error.name = "StorageError"
    /\ outcome.error.code = "INVALID_VALUE"

\* C19: serialize resolves to a text exactly for the values of which
\* isSerializable is true: the encoding of a value the classifier accepts
\* completes without a rejection, and a value it refuses is rejected with
\* INVALID_VALUE.
C19_ClassifierAndCodecAgree ==
    (op = "serialize" /\ SerializeSettled) =>
        /\ outcome.kind = "resolved" <=> ClassifierSays = "true"
        /\ ClassifierSays = "false" => RejectedInvalidValue

\* the two directions that hold: a text is made only for a value the
\* classifier accepts, and a value it refuses is rejected with INVALID_VALUE
\* by serialize, before the dispatch
C19_ResolvedOnlyIfAccepted ==
    (op = "serialize" /\ SerializeSettled) =>
        /\ outcome.kind = "resolved" => ClassifierSays = "true"
        /\ ClassifierSays = "false" => RejectedInvalidValue /\ envelope = Pending

-----------------------------------------------------------------------------
(* C20 *)

\* the text of the content an array or record had when serialize was called
TextAtCall ==
    JSONStringify(snapshot,
        Envelope(IF snapshot[arg.id].t = "Array" THEN "array" ELSE "object", arg)).s

\* C20: for an array or plain record that the classifier accepted when
\* serialize was called, the text serialize resolves to is the text of the
\* content it had at the call, whatever the caller does to it before the
\* promise settles.
C20_TextOfCheckedContent ==
    (op = "serialize" /\ arg.t = "ref" /\ SerializeSettled
        /\ isSerializable(snapshot, arg) = "true") =>
        outcome = Resolved(Str(TextAtCall))

\* content that was never checked is in the text: an element pushed after
\* the call
C20_UncheckedContentEncoded ==
    /\ SerializeSettled
    /\ snapshot = <<ArrayOf(<<Num(1)>>)>>
    /\ heap = <<ArrayOf(<<Num(1), Num(2)>>)>>
    /\ outcome = Resolved(Str("{\"__v\":1,\"__t\":\"array\",\"data\":[1,2]}"))

-----------------------------------------------------------------------------
(* C21 *)

\* the array or record the call was given holds itself as one of its own
\* elements or member values
ContainsItselfDirectly(h, v) ==
    /\ v.t = "ref"
    /\ \E j \in 1..Len(ItemsOf(h[v.id])) : ItemsOf(h[v.id])[j] = v

\* it is reached from itself, but only through another array or record
ContainsItselfThroughChain(h, v) ==
    /\ v.t = "ref"
    /\ ~ContainsItselfDirectly(h, v)
    /\ v.id \in ReachedIn(h, RefsOf(h[v.id]), Len(h))

\* C21: isSerializable is total: for every input value, an array or plain
\* record that contains itself directly or through a chain of nested arrays
\* and records included, the call returns true or false and raises no error.
C21_ClassifierTotal ==
    Classified => outcome \in {Returned(Bool(TRUE)), Returned(Bool(FALSE))}

\* the call raises only on a value that contains itself, and what it raises
\* is the RangeError of the overflowing call stack
C21_RaisesOnlyOnCycle ==
    (Classified /\ outcome.kind = "threw") =>
        /\ Cyclic(heap, arg)
        /\ outcome.error.name = "RangeError"

\* on a value that contains itself the call returns only when every() stops
\* at an unsupported value ahead of the cycle, and then it returns false
C21_CycleNeverAccepted ==
    (Classified /\ Cyclic(heap, arg)) =>
        \/ outcome.kind = "threw"
        \/ outcome = Returned(Bool(FALSE)) /\ HoldsRefused(heap, arg)

\* the call raised on an array that is its own element
C21_RaisedOnArrayInItself ==
    /\ Classified
    /\ ContainsItselfDirectly(heap, arg)
    /\ heap[arg.id].t = "Array"
    /\ outcome.kind = "threw"

\* the call raised on a plain record that is one of its own member values
C21_RaisedOnRecordInItself ==
    /\ Classified
    /\ ContainsItselfDirectly(heap, arg)
    /\ heap[arg.id].t = "Object"
    /\ outcome.kind = "threw"

\* the call raised on a value that contains itself through a chain
C21_RaisedOnChain ==
    /\ Classified
    /\ ContainsItselfThroughChain(heap, arg)
    /\ outcome.kind = "threw"

\* the call returned false on a value that contains itself
C21_ReturnedOnCycle ==
    /\ Classified
    /\ Cyclic(heap, arg)
    /\ outcome = Returned(Bool(FALSE))

====
